---------------------------- MODULE Spec2Model ----------------------------
(***************************************************************************)
(* Model of uefi-bootmgr: the UEFI device path codec, the load option      *)
(* codec, the load option attribute bitfield, the efivarfs variable store  *)
(* and the boot entry aggregation (list_boot_entries).                     *)
(*                                                                         *)
(* Representation.  A byte is a number 0..255 and a buffer is a sequence   *)
(* of bytes.  A reader (impl Read / Cursor) is a buffer with the number of *)
(* bytes already consumed.  A u16 is a number 0..65535.  A u32 is a pair   *)
(* and a u64 a 4-tuple of 16-bit limbs, least significant limb first, so   *)
(* that every width of the program is exact.  A Rust String is a sequence  *)
(* of Unicode scalar values; UTF-16 text is a sequence of u16 code units.  *)
(***************************************************************************)
EXTENDS Integers, Sequences, FiniteSets, TLC

VARIABLES
    loInput,      \* SpecLoadOption: the bytes handed to EFILoadOption::parse
    loParsed,     \* SpecLoadOption: the result of EFILoadOption::parse
    loOutput,     \* SpecLoadOption: the bytes EFILoadOption::write produced
    loPc,         \* SpecLoadOption: "start", "parsed", "written"
    chSource,     \* SpecChain: the in-memory device path chain
    chBytes,      \* SpecChain: its encoding, EndEntire appended
    chDecoded,    \* SpecChain: the result of decoding chBytes
    chPc,         \* SpecChain: "start", "encoded", "decoded"
    atStart,      \* SpecAttributes: the u32 the LoadOptionAttributes was made from
    atSelf,       \* SpecAttributes: the LoadOptionAttributes (self.0)
    atPrev,       \* SpecAttributes: self.0 before the latest call
    atFlags,      \* SpecAttributes: the argument of the latest set_flags
    atCategory,   \* SpecAttributes: the argument of the latest set_category
    atCalls,      \* SpecAttributes: the calls made, in order
    ndInput,      \* SpecNode: the bytes handed to EFIDevicePathProtocol::parse
    ndResult,     \* SpecNode: the result of EFIDevicePathProtocol::parse
    ndOption,     \* SpecNode: a load option whose chain ends with ndInput
    ndOptionResult, \* SpecNode: the result of EFILoadOption::parse on ndOption
    ndPc,         \* SpecNode: "start", "parsed", "option_parsed"
    btFiles,      \* SpecBoot: the efivars directory, in listing order
    btPc,         \* SpecBoot: where list_boot_entries and main_page are
    btOrder,      \* SpecBoot: order, the decoded BootOrder
    btNames,      \* SpecBoot: variables, the enumerated names
    btIdx,        \* SpecBoot: the position of the stream in variables
    btCollected,  \* SpecBoot: the entries try_collect holds so far
    btResult,     \* SpecBoot: what list_boot_entries returned
    btRows,       \* SpecBoot: what main_page put on the page
    btLog,        \* SpecBoot: the backend calls made and their outcomes
    lvFiles,      \* SpecList: the efivars directory, in listing order
    lvPc,         \* SpecList: where list_variables is
    lvNames,      \* SpecList: what enumerate_variables returned
    lvIdx,        \* SpecList: the position of the stream in names
    lvCollected,  \* SpecList: the items collect holds so far
    lvResult,     \* SpecList: what list_variables returned
    lvLog,        \* SpecList: the read_variable calls made and what they returned
    enFiles,      \* SpecEnumerate: the efivars directory, in listing order
    enIoErrorAt,  \* SpecEnumerate: the backend call that failed, 0 for none
    enResult,     \* SpecEnumerate: what enumerate_variables returned
    enPc,         \* SpecEnumerate: "start", "done"
    stMode,       \* SpecStream: "list_boot_entries" or "list_variables", the call
    stFiles,      \* SpecStream: the efivars directory, files may be removed
    stPc,         \* SpecStream: where the call is
    stOrder,      \* SpecStream: order, the decoded BootOrder
    stNames,      \* SpecStream: the enumerated names, the source of the stream
    stNext,       \* SpecStream: the next name stream::iter has to yield
    stPending,    \* SpecStream: the read futures started and not completed
    stCollected,  \* SpecStream: the items collect or try_collect holds so far
    stResult,     \* SpecStream: what the call returned
    stRemoved,    \* SpecStream: the number of files removed meanwhile
    stLog,        \* SpecStream: the reads started and ended, in order
    wrOption,     \* SpecWrite: the EFILoadOption handed to write
    wrOutput,     \* SpecWrite: the bytes EFILoadOption::write produced
    wrNodes,      \* SpecWrite: per node, the size field and the bytes written
    wrPc,         \* SpecWrite: "start", "written", "panicked"
    ccFiles,      \* SpecConcurrent: the efivars directory both calls run against
    ccRegex,      \* SpecConcurrent: BOOT_KEY_REGEX, the OnceLock the calls share
    ccPc,         \* SpecConcurrent: per call, where list_boot_entries is
    ccOrder,      \* SpecConcurrent: per call, order
    ccNames,      \* SpecConcurrent: per call, variables, the enumerated names
    ccIdx,        \* SpecConcurrent: per call, the position of its stream
    ccCollected,  \* SpecConcurrent: per call, what try_collect holds so far
    ccOutcome,    \* SpecConcurrent: per call, what it returned, or its panic
    ccAnswers,    \* SpecConcurrent: per call, the io errors its backend calls met
    ccLast,       \* SpecConcurrent: the call that took the latest step
    ccInterleaved \* SpecConcurrent: a call went on after the other had stepped

loVars == <<loInput, loParsed, loOutput, loPc>>
chVars == <<chSource, chBytes, chDecoded, chPc>>
atVars == <<atStart, atSelf, atPrev, atFlags, atCategory, atCalls>>
ndVars == <<ndInput, ndResult, ndOption, ndOptionResult, ndPc>>
btVars ==
    <<btFiles, btPc, btOrder, btNames, btIdx, btCollected, btResult, btRows, btLog>>
lvVars ==
    <<lvFiles, lvPc, lvNames, lvIdx, lvCollected, lvResult, lvLog>>
enVars ==
    <<enFiles, enIoErrorAt, enResult, enPc>>
stVars ==
    <<stMode, stFiles, stPc, stOrder, stNames, stNext, stPending, stCollected, stResult, stRemoved, stLog>>
wrVars ==
    <<wrOption, wrOutput, wrNodes, wrPc>>
ccVars ==
    <<ccFiles, ccRegex, ccPc, ccOrder, ccNames, ccIdx, ccCollected, ccOutcome, ccAnswers, ccLast, ccInterleaved>>
vars == <<loVars, chVars, atVars, ndVars, btVars, lvVars, enVars, stVars, wrVars, ccVars>>

None == [none |-> TRUE]

\* the variables of a specification that is not the one being run
LoIdle == loInput = <<>> /\ loParsed = None /\ loOutput = None /\ loPc = "idle"
ChIdle == chSource = <<>> /\ chBytes = None /\ chDecoded = None /\ chPc = "idle"
AtIdle ==
    /\ atStart = None /\ atSelf = None /\ atPrev = None
    /\ atFlags = None /\ atCategory = None /\ atCalls = <<>>
NdIdle ==
    /\ ndInput = <<>> /\ ndResult = None /\ ndOption = <<>>
    /\ ndOptionResult = None /\ ndPc = "idle"
BtIdle ==
    /\ btFiles = <<>> /\ btPc = "idle" /\ btOrder = None /\ btNames = None
    /\ btIdx = 0 /\ btCollected = <<>> /\ btResult = None /\ btRows = None
    /\ btLog = <<>>
LvIdle ==
    /\ lvFiles = <<>> /\ lvPc = "idle" /\ lvNames = None /\ lvIdx = 0
    /\ lvCollected = <<>> /\ lvResult = None /\ lvLog = <<>>
EnIdle == enFiles = <<>> /\ enIoErrorAt = 0 /\ enResult = None /\ enPc = "idle"
StIdle ==
    /\ stMode = "idle" /\ stFiles = <<>> /\ stPc = "idle" /\ stOrder = None
    /\ stNames = <<>> /\ stNext = 0 /\ stPending = <<>> /\ stCollected = <<>>
    /\ stResult = None /\ stRemoved = 0 /\ stLog = <<>>
WrIdle == wrOption = None /\ wrOutput = None /\ wrNodes = <<>> /\ wrPc = "idle"
CcIdle ==
    /\ ccFiles = <<>> /\ ccRegex = None /\ ccPc = None /\ ccOrder = None
    /\ ccNames = None /\ ccIdx = None /\ ccCollected = None /\ ccOutcome = None
    /\ ccAnswers = None /\ ccLast = "idle" /\ ccInterleaved = FALSE

\* what the actions of one specification leave alone
LoFrame == UNCHANGED <<chVars, atVars, ndVars, btVars, lvVars, enVars, stVars, wrVars, ccVars>>
ChFrame == UNCHANGED <<loVars, atVars, ndVars, btVars, lvVars, enVars, stVars, wrVars, ccVars>>
AtFrame == UNCHANGED <<loVars, chVars, ndVars, btVars, lvVars, enVars, stVars, wrVars, ccVars>>
NdFrame == UNCHANGED <<loVars, chVars, atVars, btVars, lvVars, enVars, stVars, wrVars, ccVars>>
BtFrame == UNCHANGED <<loVars, chVars, atVars, ndVars, lvVars, enVars, stVars, wrVars, ccVars>>
LvFrame == UNCHANGED <<loVars, chVars, atVars, ndVars, btVars, enVars, stVars, wrVars, ccVars>>
EnFrame == UNCHANGED <<loVars, chVars, atVars, ndVars, btVars, lvVars, stVars, wrVars, ccVars>>
StFrame == UNCHANGED <<loVars, chVars, atVars, ndVars, btVars, lvVars, enVars, wrVars, ccVars>>
WrFrame == UNCHANGED <<loVars, chVars, atVars, ndVars, btVars, lvVars, enVars, stVars, ccVars>>
CcFrame == UNCHANGED <<loVars, chVars, atVars, ndVars, btVars, lvVars, enVars, stVars, wrVars>>

(***************************************************************************)
(* Results of the fallible functions.                                      *)
(***************************************************************************)
Ok(v, p) == [ok |-> TRUE, value |-> v, pos |-> p]
Err(e) == [ok |-> FALSE, err |-> e]

\* "let x = e;" of the code: e is evaluated once and Then is applied to its value
Let(e, Then(_)) == CHOOSE result \in { Then(x) : x \in {e} } : TRUE

\* DevicePathProtocolParseError
IoError == [kind |-> "IoError"]
\* an unknown type reported as an I/O failure
UnknownType_as_io(typ) == [kind |-> "IoError"]

UnknownType(typ) == [kind |-> "UnknownType", typ |-> typ]
UnknownSubType(typ, sub_type) ==
    [kind |-> "UnknownSubType", typ |-> typ, sub_type |-> sub_type]
ParseSubType(sub_type, message) ==
    [kind |-> "ParseSubType", sub_type |-> sub_type, message |-> message]

\* LoadOptionParseError
ParseError == [kind |-> "ParseError"]
FromUtf16Error == [kind |-> "FromUtf16Error"]
DevicePathProtocolParseError(source) ==
    [kind |-> "DevicePathProtocolParseError", source |-> source]

(***************************************************************************)
(* byteorder: little-endian reads from a reader, writes to a buffer.       *)
(***************************************************************************)
U16(b0, b1) == b0 + 256 * b1

read_u8(buf, pos) ==
    IF pos + 1 <= Len(buf) THEN Ok(buf[pos + 1], pos + 1) ELSE Err(IoError)

read_u16(buf, pos) ==
    IF pos + 2 <= Len(buf)
    THEN Ok(U16(buf[pos + 1], buf[pos + 2]), pos + 2)
    ELSE Err(IoError)

read_u32(buf, pos) ==
    IF pos + 4 <= Len(buf)
    THEN Ok(<<U16(buf[pos + 1], buf[pos + 2]), U16(buf[pos + 3], buf[pos + 4])>>,
            pos + 4)
    ELSE Err(IoError)

read_u64(buf, pos) ==
    IF pos + 8 <= Len(buf)
    THEN Ok(<<U16(buf[pos + 1], buf[pos + 2]), U16(buf[pos + 3], buf[pos + 4]),
              U16(buf[pos + 5], buf[pos + 6]), U16(buf[pos + 7], buf[pos + 8])>>,
            pos + 8)
    ELSE Err(IoError)

read_exact(buf, pos, n) ==
    IF pos + n <= Len(buf)
    THEN Ok(SubSeq(buf, pos + 1, pos + n), pos + n)
    ELSE Err(IoError)

write_u16(v) == <<v % 256, v \div 256>>

write_u32(v) == write_u16(v[1]) \o write_u16(v[2])

write_u64(v) ==
    write_u16(v[1]) \o write_u16(v[2]) \o write_u16(v[3]) \o write_u16(v[4])

(***************************************************************************)
(* UTF-16: String::encode_utf16 and String::from_utf16.                    *)
(***************************************************************************)
IsHighSurrogate(u) == 55296 <= u /\ u <= 56319
IsLowSurrogate(u) == 56320 <= u /\ u <= 57343

encode_utf16_char(c) ==
    IF c < 65536
    THEN <<c>>
    ELSE <<55296 + ((c - 65536) \div 1024), 56320 + ((c - 65536) % 1024)>>

\* the units of the first half of the string, then those of the second
RECURSIVE encode_utf16(_)
encode_utf16(s) ==
    IF Len(s) = 0 THEN <<>>
    ELSE IF Len(s) = 1 THEN encode_utf16_char(s[1])
    ELSE encode_utf16(SubSeq(s, 1, Len(s) \div 2))
         \o encode_utf16(SubSeq(s, Len(s) \div 2 + 1, Len(s)))

RECURSIVE from_utf16_at(_, _, _)
from_utf16_at(units, i, acc) ==
    IF i > Len(units) THEN [ok |-> TRUE, value |-> acc]
    ELSE IF IsHighSurrogate(units[i])
         THEN IF i + 1 <= Len(units) /\ IsLowSurrogate(units[i + 1])
              THEN from_utf16_at(units, i + 2,
                       Append(acc, 65536 + (units[i] - 55296) * 1024
                                         + (units[i + 1] - 56320)))
              ELSE [ok |-> FALSE]
         ELSE IF IsLowSurrogate(units[i])
              THEN [ok |-> FALSE]
              ELSE from_utf16_at(units, i + 1, Append(acc, units[i]))

from_utf16(units) == Let(units, LAMBDA u : from_utf16_at(u, 1, <<>>))

\* cast_slice of a [u16] to bytes on a little-endian target
cast_slice_u16_to_u8(units) ==
    [i \in 1..(2 * Len(units)) |->
        IF i % 2 = 1 THEN units[(i + 1) \div 2] % 256
        ELSE units[i \div 2] \div 256]

\* the loop "read_u16 until 0x0000" shared by the description and FilePath
RECURSIVE read_utf16_until_nul(_, _, _)
read_utf16_until_nul(buf, pos, acc) ==
    Let(read_u16(buf, pos), LAMBDA char :
        IF ~char.ok THEN char
        ELSE IF char.value = 0 THEN Ok(acc, char.pos)
        ELSE read_utf16_until_nul(buf, char.pos, Append(acc, char.value)))

(***************************************************************************)
(* Device path codec (efidevicepath.rs).                                   *)
(*                                                                         *)
(* In-memory nodes:                                                        *)
(*   [kind |-> "HardDrive", partition_number, partition_start,             *)
(*    partition_size, signature |-> [kind, data], partition_table]         *)
(*   [kind |-> "FilePath", path_name]                                      *)
(*   [kind |-> "End", sub |-> "EndEntireDevicePath"|"EndInstanceDevicePath"]*)
(***************************************************************************)
MEDIA_DEVICE_PATH == 4
END_OF_HARDWARE_DEVICE_PATH == 127
HARD_DRIVE_SUBTYPE == 1
FILEPATH_SUBTYPE == 4
END_INSTANCE_DEVICE_PATH == 1
END_ENTIRE_DEVICE_PATH == 255
NO_SIGNATURE == 0
MBR_SIGNATURE == 1
GUID_SIGNATURE == 2
PARTITION_TABLE_MBR == 1
PARTITION_TABLE_GPT == 2

\* the two's complement width of size(), sum() and the length fields
U16_MODULUS == 65536

HardDrive(number, start, size, signature, table) ==
    [kind |-> "HardDrive", partition_number |-> number, partition_start |-> start,
     partition_size |-> size, signature |-> signature, partition_table |-> table]

FilePath(path_name) == [kind |-> "FilePath", path_name |-> path_name]

End(sub) == [kind |-> "End", sub |-> sub]

new_end_entire == End("EndEntireDevicePath")

\* Uuid::from_bytes_le and Uuid::to_bytes_le: the first three fields are
\* byte-swapped, the last eight bytes are kept.  A Uuid is its 16 bytes in
\* big-endian (RFC 4122) order.
\* the signature bytes taken as a Uuid without the field swap
Uuid_from_bytes_le_noswap(b) == b

Uuid_from_bytes_le(b) ==
    <<b[4], b[3], b[2], b[1], b[6], b[5], b[8], b[7]>> \o SubSeq(b, 9, 16)

Uuid_to_bytes_le(u) ==
    <<u[4], u[3], u[2], u[1], u[6], u[5], u[8], u[7]>> \o SubSeq(u, 9, 16)

new_hard_drive_gpt(partition_number, partition_start, partition_size, uuid) ==
    HardDrive(partition_number, partition_start, partition_size,
              [kind |-> "GUID", data |-> uuid], "GPT")

\* PartitionTableType: TryFromPrimitive / as u8
PartitionTableType_try_from(b) ==
    IF b = PARTITION_TABLE_MBR THEN [ok |-> TRUE, value |-> "MBR"]
    ELSE IF b = PARTITION_TABLE_GPT THEN [ok |-> TRUE, value |-> "GPT"]
    ELSE [ok |-> FALSE]

PartitionTableType_as_u8(t) ==
    IF t = "MBR" THEN PARTITION_TABLE_MBR ELSE PARTITION_TABLE_GPT

\* impl From<&Signature> for u8
Signature_as_u8(signature) ==
    IF signature.kind = "None" THEN NO_SIGNATURE
    ELSE IF signature.kind = "MBRSignature" THEN MBR_SIGNATURE
    ELSE GUID_SIGNATURE

\* The reads are sequential and of fixed sizes, so each is written with its
\* offset from the start of the payload: 0, 4, 12, 20, 36 and 37.
HardDriveDevicePath_parse(buf, pos) ==
    LET partition_number == read_u32(buf, pos)
        partition_start == read_u64(buf, pos + 4)
        partition_size == read_u64(buf, pos + 12)
        signature_data == read_exact(buf, pos + 20, 16)
        table_byte == read_u8(buf, pos + 36)
        partition_table == PartitionTableType_try_from(buf[pos + 37])
        signature_type == read_u8(buf, pos + 37)
        signature ==
            IF buf[pos + 38] = NO_SIGNATURE
            THEN [kind |-> "None", data |-> signature_data.value]
            ELSE IF buf[pos + 38] = MBR_SIGNATURE
            THEN [kind |-> "MBRSignature", data |-> signature_data.value]
            ELSE [kind |-> "GUID", data |-> Uuid_from_bytes_le(signature_data.value)]
    IN  IF ~partition_number.ok THEN partition_number
        ELSE IF ~partition_start.ok THEN partition_start
        ELSE IF ~partition_size.ok THEN partition_size
        ELSE IF ~signature_data.ok THEN signature_data
        ELSE IF ~table_byte.ok THEN table_byte
        ELSE IF ~partition_table.ok
        THEN Err(ParseSubType("HardDriveDevicePath", "parse partition table"))
        ELSE IF ~signature_type.ok THEN signature_type
        ELSE IF buf[pos + 38] \notin {NO_SIGNATURE, MBR_SIGNATURE, GUID_SIGNATURE}
        THEN Err(ParseSubType("HardDriveDevicePath", "unknown signature type"))
        ELSE Ok(HardDrive(partition_number.value, partition_start.value,
                          partition_size.value, signature, partition_table.value),
                pos + 38)

HardDriveDevicePath_write(hd) ==
    write_u32(hd.partition_number)
    \o write_u64(hd.partition_start)
    \o write_u64(hd.partition_size)
    \o (IF hd.signature.kind = "GUID"
        THEN Uuid_to_bytes_le(hd.signature.data)
        ELSE hd.signature.data)
    \o <<PartitionTableType_as_u8(hd.partition_table)>>
    \o <<Signature_as_u8(hd.signature)>>

FilePathDevicePath_parse(buf, pos) ==
    Let(read_utf16_until_nul(buf, pos, <<>>), LAMBDA buffer :
        IF ~buffer.ok THEN buffer ELSE
    Let(from_utf16(buffer.value), LAMBDA path_name :
        IF ~path_name.ok
        THEN Err(ParseSubType("FilePathDevicePath", "parse utf-16"))
        ELSE Ok(FilePath(path_name.value), buffer.pos)))

MediaDevicePath_parse(sub_type, buf, pos) ==
    IF sub_type = HARD_DRIVE_SUBTYPE THEN HardDriveDevicePath_parse(buf, pos)
    ELSE IF sub_type = FILEPATH_SUBTYPE THEN FilePathDevicePath_parse(buf, pos)
    ELSE Err(UnknownSubType("MediaDevicePath", sub_type))

MediaDevicePath_write(media) ==
    IF media.kind = "HardDrive"
    THEN HardDriveDevicePath_write(media)
    ELSE Let(encode_utf16(media.path_name) \o <<0>>, LAMBDA path_name :
             cast_slice_u16_to_u8(path_name))

\* 4 + 8 + 8 + 16 + 1 + 1 for a hard drive; count() as u16 * 2 for a file path
MediaDevicePath_size(media) ==
    IF media.kind = "HardDrive"
    THEN 4 + 8 + 8 + 16 + 1 + 1
    ELSE (((Len(encode_utf16(media.path_name)) + 1) % U16_MODULUS) * 2) % U16_MODULUS

MediaDevicePath_sub_type(media) ==
    IF media.kind = "HardDrive" THEN HARD_DRIVE_SUBTYPE ELSE FILEPATH_SUBTYPE

\* EndSubType: TryFromPrimitive / sub_type()
EndSubType_try_from(b) ==
    IF b = END_ENTIRE_DEVICE_PATH THEN [ok |-> TRUE, value |-> "EndEntireDevicePath"]
    ELSE IF b = END_INSTANCE_DEVICE_PATH
    THEN [ok |-> TRUE, value |-> "EndInstanceDevicePath"]
    ELSE [ok |-> FALSE]

EndSubType_sub_type(sub) ==
    IF sub = "EndEntireDevicePath" THEN END_ENTIRE_DEVICE_PATH
    ELSE END_INSTANCE_DEVICE_PATH

EFIDevicePathProtocol_size(node) ==
    (4 + (IF node.kind = "End" THEN 0 ELSE MediaDevicePath_size(node))) % U16_MODULUS

\* The result also carries the header's size field, which the code reads into
\* _length and never uses.  The header reads are of fixed sizes: typ is at
\* offset 0, sub_type at 1, the size field at 2 and the payload at 4.
EFIDevicePathProtocol_parse(buf, pos) ==
    IF ~read_u8(buf, pos).ok THEN Err(IoError)
    ELSE IF ~read_u8(buf, pos + 1).ok THEN Err(IoError)
    ELSE IF ~read_u16(buf, pos + 2).ok THEN Err(IoError)
    ELSE Let(<<buf[pos + 1], buf[pos + 2], U16(buf[pos + 3], buf[pos + 4])>>,
             LAMBDA header :
        IF header[1] = MEDIA_DEVICE_PATH
        THEN Let(MediaDevicePath_parse(header[2], buf, pos + 4), LAMBDA media :
                 IF ~media.ok THEN media
                 ELSE [ok |-> TRUE, value |-> media.value, pos |-> media.pos,
                       length |-> header[3]])
        ELSE IF header[1] = END_OF_HARDWARE_DEVICE_PATH
        THEN Let(EndSubType_try_from(header[2]), LAMBDA sub :
                 IF ~sub.ok THEN Err(UnknownSubType("End", header[2]))
                 ELSE [ok |-> TRUE, value |-> End(sub.value), pos |-> pos + 4,
                       length |-> header[3]])
        ELSE Err(UnknownType(header[1])))

EFIDevicePathProtocol_write(node) ==
    LET typ == IF node.kind = "End" THEN END_OF_HARDWARE_DEVICE_PATH
               ELSE MEDIA_DEVICE_PATH
        sub_type == IF node.kind = "End" THEN EndSubType_sub_type(node.sub)
                    ELSE MediaDevicePath_sub_type(node)
    IN  <<typ, sub_type>>
        \o write_u16(EFIDevicePathProtocol_size(node))
        \o (IF node.kind = "End" THEN <<>> ELSE MediaDevicePath_write(node))

\* size() leaves the u16 range: `count() as u16 * 2` or `4 + ..` overflows
EFIDevicePathProtocol_size_overflows(node) ==
    /\ node.kind = "FilePath"
    /\ \/ ((Len(encode_utf16(node.path_name)) + 1) % U16_MODULUS) * 2
               >= U16_MODULUS
       \/ 4 + MediaDevicePath_size(node) >= U16_MODULUS

\* impl Sum<&EFIDevicePathProtocol> for u16, in a build without overflow
\* checks
RECURSIVE sum_sizes(_)
sum_sizes(list) ==
    IF list = <<>> THEN 0
    ELSE (sum_sizes(SubSeq(list, 1, Len(list) - 1))
          + EFIDevicePathProtocol_size(list[Len(list)])) % U16_MODULUS

\* the sum leaves the u16 range, in a size() or in an addition
RECURSIVE sum_sizes_overflows(_)
sum_sizes_overflows(list) ==
    IF list = <<>> THEN FALSE
    ELSE \/ sum_sizes_overflows(SubSeq(list, 1, Len(list) - 1))
         \/ EFIDevicePathProtocol_size_overflows(list[Len(list)])
         \/ sum_sizes(SubSeq(list, 1, Len(list) - 1))
                + EFIDevicePathProtocol_size(list[Len(list)]) >= U16_MODULUS

(***************************************************************************)
(* Load option codec (efiloadoption.rs).                                   *)
(*                                                                         *)
(* EFILoadOption: [attributes (u32), file_path_list, description,          *)
(*                 optional_data].                                         *)
(***************************************************************************)
EFILoadOption(attributes, file_path_list, description, optional_data) ==
    [attributes |-> attributes, file_path_list |-> file_path_list,
     description |-> description, optional_data |-> optional_data]

\* The loop of EFILoadOption::parse over the Cursor of the path list buffer.
\* nodes records, for every node parsed (the End node included), its size
\* field and the number of bytes parse consumed for it; pos is the Cursor's
\* position when the loop breaks.
\* the End node is pushed to the list before the loop breaks
RECURSIVE parse_file_path_list_keeps_end(_, _, _, _)
parse_file_path_list_keeps_end(buffer, pos, list, nodes) ==
    Let(EFIDevicePathProtocol_parse(buffer, pos), LAMBDA device_path :
        IF ~device_path.ok THEN Err(DevicePathProtocolParseError(device_path.err))
        ELSE
    Let(Append(nodes, [node |-> device_path.value,
                       length |-> device_path.length,
                       consumed |-> device_path.pos - pos]), LAMBDA seen :
        IF device_path.value.kind = "End"
        THEN [ok |-> TRUE, value |-> Append(list, device_path.value), pos |-> device_path.pos,
              nodes |-> seen]
        ELSE parse_file_path_list_keeps_end(buffer, device_path.pos,
                 Append(list, device_path.value), seen)))

RECURSIVE parse_file_path_list(_, _, _, _)
parse_file_path_list(buffer, pos, list, nodes) ==
    Let(EFIDevicePathProtocol_parse(buffer, pos), LAMBDA device_path :
        IF ~device_path.ok THEN Err(DevicePathProtocolParseError(device_path.err))
        ELSE
    Let(Append(nodes, [node |-> device_path.value,
                       length |-> device_path.length,
                       consumed |-> device_path.pos - pos]), LAMBDA seen :
        IF device_path.value.kind = "End"
        THEN [ok |-> TRUE, value |-> list, pos |-> device_path.pos,
              nodes |-> seen]
        ELSE parse_file_path_list(buffer, device_path.pos,
                 Append(list, device_path.value), seen)))

\* attributes is at offset 0 and file_path_list_length at offset 4; the
\* description starts at offset 6.
EFILoadOption_parse(buf) ==
    IF ~read_u32(buf, 0).ok THEN Err(ParseError)
    ELSE IF ~read_u16(buf, 4).ok THEN Err(ParseError)
    ELSE
    Let(read_u32(buf, 0).value, LAMBDA attributes :
    Let(read_u16(buf, 4).value, LAMBDA file_path_list_length :
    Let(read_utf16_until_nul(buf, 6, <<>>), LAMBDA units :
        IF ~units.ok THEN Err(ParseError) ELSE
    Let(from_utf16(units.value), LAMBDA description :
        IF ~description.ok THEN Err(FromUtf16Error) ELSE
    Let(read_exact(buf, units.pos, file_path_list_length), LAMBDA buffer :
        IF ~buffer.ok THEN Err(ParseError) ELSE
    Let(parse_file_path_list(buffer.value, 0, <<>>, <<>>), LAMBDA list :
        IF ~list.ok THEN list ELSE
    Let(SubSeq(buf, buffer.pos + 1, Len(buf)), LAMBDA optional_data :
        [ok |-> TRUE,
         value |-> EFILoadOption(attributes, list.value, description.value,
                                 optional_data),
         file_path_list_length |-> file_path_list_length,
         cursor |-> list.pos,
         nodes |-> list.nodes])))))))

RECURSIVE write_device_paths(_)
write_device_paths(list) ==
    IF list = <<>> THEN <<>>
    ELSE EFIDevicePathProtocol_write(Head(list)) \o write_device_paths(Tail(list))

EFILoadOption_write(self) ==
    Let(Append(self.file_path_list, new_end_entire), LAMBDA file_path_list_with_end :
    Let(encode_utf16(self.description) \o <<0>>, LAMBDA description :
        write_u32(self.attributes)
        \o write_u16(sum_sizes(file_path_list_with_end))
        \o cast_slice_u16_to_u8(description)
        \o write_device_paths(file_path_list_with_end)
        \o self.optional_data))

(***************************************************************************)
(* Inputs of the decoders.                                                 *)
(***************************************************************************)
\* how many of the PatchByteSeq values an input byte may be replaced by
MaxPatchBytes == 8
\* how far the devicePathListLength field of an input is moved up or down
MaxLengthDelta == 2

\* equivalent_load_option() of the tests, and the bytes of the captured
\* variable test/Boot0001-... after its 4-byte prefix: the tests assert that
\* parse maps the bytes to the option and write maps the option to the bytes.
equivalent_load_option ==
    EFILoadOption(
        <<1, 0>>,
        << new_hard_drive_gpt(<<1, 0>>, <<2048, 0, 0, 0>>, <<16384, 31, 0, 0>>,
               <<235, 169, 168, 86, 223, 221, 66, 235,
                 190, 118, 49, 118, 10, 233, 15, 85>>),
           FilePath(<<69, 70, 73, 92, 76, 105, 110, 117, 120, 92, 97, 114, 99,
                      104, 45, 108, 105, 110, 117, 120, 46, 101, 102, 105>>) >>,
        <<65, 114, 99, 104, 32, 76, 105, 110, 117, 120>>,
        <<>>)

Boot0001Bytes ==
    <<1, 0, 0, 0, 100, 0, 65, 0, 114, 0, 99, 0, 104, 0, 32, 0, 76, 0, 105, 0,
      110, 0, 117, 0, 120, 0, 0, 0, 4, 1, 42, 0, 1, 0, 0, 0, 0, 8, 0, 0, 0, 0,
      0, 0, 0, 64, 31, 0, 0, 0, 0, 0, 86, 168, 169, 235, 221, 223, 235, 66,
      190, 118, 49, 118, 10, 233, 15, 85, 2, 2, 4, 4, 54, 0, 69, 0, 70, 0, 73,
      0, 92, 0, 76, 0, 105, 0, 110, 0, 117, 0, 120, 0, 92, 0, 97, 0, 114, 0,
      99, 0, 104, 0, 45, 0, 108, 0, 105, 0, 110, 0, 117, 0, 120, 0, 46, 0,
      101, 0, 102, 0, 105, 0, 0, 0, 127, 255, 4, 0>>

\* Further well-formed load options, as bytes:
\*   attributes 1, "a", [FilePath "a"], no optional data
\*   attributes 0x80000101, U+1F600, [HardDrive MBR, FilePath "\a"], AA 00
\*   attributes 1, "", [], AA 00
\*   attributes 9, "a", [FilePath "a", FilePath U+1F600], no optional data
\*   attributes 0x100, "a", [HardDrive GPT without signature], 07
WellFormedInputs ==
    { Boot0001Bytes,
      <<1, 0, 0, 0, 12, 0, 97, 0, 0, 0, 4, 4, 8, 0, 97, 0, 0, 0, 127, 255, 4, 0>>,
      <<1, 1, 0, 128, 56, 0, 61, 216, 0, 222, 0, 0, 4, 1, 42, 0, 2, 0, 0, 0, 0,
        0, 1, 0, 0, 0, 0, 0, 1, 0, 0, 0, 1, 0, 0, 0, 120, 86, 52, 18, 0, 0, 0,
        0, 0, 0, 0, 0, 0, 0, 0, 0, 1, 1, 4, 4, 10, 0, 92, 0, 97, 0, 0, 0, 127,
        255, 4, 0, 170, 0>>,
      <<1, 0, 0, 0, 4, 0, 0, 0, 127, 255, 4, 0, 170, 0>>,
      <<9, 0, 0, 0, 22, 0, 97, 0, 0, 0, 4, 4, 8, 0, 97, 0, 0, 0, 4, 4, 10, 0,
        61, 216, 0, 222, 0, 0, 127, 255, 4, 0>>,
      <<0, 1, 0, 0, 46, 0, 97, 0, 0, 0, 4, 1, 42, 0, 1, 0, 0, 0, 1, 0, 0, 0, 0,
        0, 0, 0, 1, 0, 0, 0, 0, 0, 0, 0, 1, 2, 3, 4, 5, 6, 7, 8, 9, 10, 11, 12,
        13, 14, 15, 16, 2, 0, 127, 255, 4, 0, 7>> }

PatchByteSeq == <<0, 1, 4, 127, 255, 170, 216, 2, 3, 8, 42, 220>>

PatchBytes ==
    { PatchByteSeq[i] : i \in 1..(IF MaxPatchBytes < Len(PatchByteSeq)
                                  THEN MaxPatchBytes ELSE Len(PatchByteSeq)) }

Patched(b) == { [b EXCEPT ![i] = v] : i \in 1..Len(b), v \in PatchBytes }

Truncated(b) == { SubSeq(b, 1, n) : n \in 0..Len(b) }

\* the same bytes with the u16 at offset 4 (devicePathListLength) moved
Relengthed(b) ==
    { [b EXCEPT ![5] = (U16(b[5], b[6]) + d) % 256,
                ![6] = ((U16(b[5], b[6]) + d) \div 256) % 256] :
        d \in { x \in (0 - MaxLengthDelta)..MaxLengthDelta :
                    U16(b[5], b[6]) + x >= 0 } }

LoadOptionInputs ==
    UNION { Patched(b) \cup Truncated(b) \cup Relengthed(b) : b \in WellFormedInputs }

(***************************************************************************)
(* SpecLoadOption: EFILoadOption::parse on an input, then                  *)
(* EFILoadOption::write of the parsed option.                              *)
(***************************************************************************)
LoInit ==
    /\ ChIdle
    /\ AtIdle
    /\ NdIdle
    /\ BtIdle
    /\ LvIdle
    /\ EnIdle
    /\ StIdle
    /\ WrIdle
    /\ CcIdle
    /\ loInput \in LoadOptionInputs
    /\ loParsed = None
    /\ loOutput = None
    /\ loPc = "start"

LoParse ==
    /\ loPc = "start"
    /\ loParsed' = EFILoadOption_parse(loInput)
    /\ loPc' = "parsed"
    /\ UNCHANGED <<loInput, loOutput>>
    /\ LoFrame

LoWrite ==
    /\ loPc = "parsed"
    /\ loParsed.ok
    /\ loOutput' = EFILoadOption_write(loParsed.value)
    /\ loPc' = "written"
    /\ UNCHANGED <<loInput, loParsed>>
    /\ LoFrame

LoNext == LoParse \/ LoWrite

SpecLoadOption == LoInit /\ [][LoNext]_vars

(***************************************************************************)
(* C1: parse followed by write.                                            *)
(***************************************************************************)
\* An accepted input is in the encoder's form when every node's size field is
\* the number of bytes decoded for the node, the chain ends with EndEntire and
\* devicePathListLength is the number of bytes of the chain through its End.
EncoderForm(parsed) ==
    /\ parsed.cursor = parsed.file_path_list_length
    /\ \A i \in 1..Len(parsed.nodes) :
           parsed.nodes[i].length = parsed.nodes[i].consumed
    /\ parsed.nodes[Len(parsed.nodes)].node.sub = "EndEntireDevicePath"

\* C1 (as claimed): for every byte sequence EFILoadOption::parse accepts,
\* parse followed by write reproduces the original bytes exactly.
C1_RoundTripEveryAccepted ==
    loPc = "written" => loOutput = loInput

\* C1 (amended): for every byte sequence EFILoadOption::parse accepts, parse
\* followed by write reproduces the original bytes exactly if and only if the
\* input is in the encoder's form.
C1_RoundTripEncoderForm ==
    loPc = "written" => (loOutput = loInput <=> EncoderForm(loParsed))

\* C1 witness: an accepted input in the encoder's form, with a two-node chain
\* and optional data, has been parsed and written back.
C1_Witness ==
    /\ loPc = "written"
    /\ EncoderForm(loParsed)
    /\ Len(loParsed.value.file_path_list) = 2
    /\ loParsed.value.optional_data # <<>>
    /\ loOutput = loInput

(***************************************************************************)
(* SpecChain: an in-memory chain of HardDrive and FilePath nodes is        *)
(* encoded as EFILoadOption::write encodes file_path_list (every node in   *)
(* order, then EndEntire) and decoded by the loop of EFILoadOption::parse. *)
(***************************************************************************)
\* longest path_name of a generated FilePath node, in chars
MaxPathLen == 2
\* longest generated chain, in nodes
MaxChainLen == 2

\* 'a', U+0000 and U+1F600 (two UTF-16 code units)
PathChars == {97, 0, 128512}

PathNames == UNION { [1..n -> PathChars] : n \in 0..MaxPathLen }

HardDriveNodes ==
    { new_hard_drive_gpt(<<1, 0>>, <<2048, 0, 0, 0>>, <<16384, 31, 0, 0>>,
          <<235, 169, 168, 86, 223, 221, 66, 235,
            190, 118, 49, 118, 10, 233, 15, 85>>),
      HardDrive(<<2, 0>>, <<0, 1, 0, 0>>, <<1, 0, 1, 0>>,
          [kind |-> "MBRSignature",
           data |-> <<120, 86, 52, 18, 0, 0, 0, 0, 0, 0, 0, 0, 0, 0, 0, 0>>],
          "MBR"),
      HardDrive(<<65535, 65535>>, <<1, 0, 0, 0>>, <<1, 0, 0, 0>>,
          [kind |-> "None",
           data |-> <<1, 2, 3, 4, 5, 6, 7, 8, 9, 10, 11, 12, 13, 14, 15, 16>>],
          "GPT") }

ChainNodes == HardDriveNodes \cup { FilePath(p) : p \in PathNames }

Chains == UNION { [1..n -> ChainNodes] : n \in 0..MaxChainLen }

ChInit ==
    /\ LoIdle
    /\ AtIdle
    /\ NdIdle
    /\ BtIdle
    /\ LvIdle
    /\ EnIdle
    /\ StIdle
    /\ WrIdle
    /\ CcIdle
    /\ chSource \in Chains
    /\ chBytes = None
    /\ chDecoded = None
    /\ chPc = "start"

ChEncode ==
    /\ chPc = "start"
    /\ chBytes' = write_device_paths(Append(chSource, new_end_entire))
    /\ chPc' = "encoded"
    /\ UNCHANGED <<chSource, chDecoded>>
    /\ ChFrame

ChDecode ==
    /\ chPc = "encoded"
    /\ chDecoded' = parse_file_path_list(chBytes, 0, <<>>, <<>>)
    /\ chPc' = "decoded"
    /\ UNCHANGED <<chSource, chBytes>>
    /\ ChFrame

ChNext == ChEncode \/ ChDecode

SpecChain == ChInit /\ [][ChNext]_vars

(***************************************************************************)
(* C2: encoding a chain and decoding the result.                           *)
(***************************************************************************)
HasNul(chain) ==
    \E i \in 1..Len(chain) :
        /\ chain[i].kind = "FilePath"
        /\ \E j \in 1..Len(chain[i].path_name) : chain[i].path_name[j] = 0

NoEndNode(chain) == \A i \in 1..Len(chain) : chain[i].kind # "End"

\* C2 (as claimed): for every chain of HardDrive and FilePath nodes, encoding
\* it and decoding the result yields the same nodes in the same order, and no
\* End node appears in the decoded chain.
C2_RoundTripEveryChain ==
    chPc = "decoded" =>
        /\ chDecoded.ok
        /\ chDecoded.value = chSource
        /\ NoEndNode(chDecoded.value)

\* C2 (amended): encoding a chain of HardDrive and FilePath nodes and decoding
\* the result yields the same nodes in the same order exactly when no FilePath
\* name contains the character U+0000; a decoded chain never holds an End node.
C2_RoundTripWithoutNul ==
    chPc = "decoded" =>
        /\ (chDecoded.ok /\ chDecoded.value = chSource) <=> ~HasNul(chSource)
        /\ chDecoded.ok => NoEndNode(chDecoded.value)

\* C2 witness: a chain with a hard drive node and a file path node whose name
\* needs a surrogate pair has been encoded and decoded to itself.
C2_Witness ==
    /\ chPc = "decoded"
    /\ Len(chSource) = 2
    /\ chSource[1].kind = "HardDrive"
    /\ chSource[2].kind = "FilePath"
    /\ chSource[2].path_name = <<97, 128512>>
    /\ chDecoded.ok
    /\ chDecoded.value = chSource

(***************************************************************************)
(* LoadOptionAttributes: a u32 holding the flags and, under CATEGORY_MASK, *)
(* the category.  Bitwise operations work limb by limb.                    *)
(***************************************************************************)
RECURSIVE BitAnd(_, _)
BitAnd(a, b) ==
    IF a = 0 \/ b = 0 THEN 0
    ELSE (a % 2) * (b % 2) + 2 * BitAnd(a \div 2, b \div 2)

BitOr(a, b) == a + b - BitAnd(a, b)

BitXor(a, b) == a + b - 2 * BitAnd(a, b)

U32And(x, y) == <<BitAnd(x[1], y[1]), BitAnd(x[2], y[2])>>

U32Or(x, y) == <<BitOr(x[1], y[1]), BitOr(x[2], y[2])>>

U32Xor(x, y) == <<BitXor(x[1], y[1]), BitXor(x[2], y[2])>>

U32_MAX == <<65535, 65535>>

CATEGORY_MASK == <<7936, 0>>

Active == <<1, 0>>
ForceReconnect == <<2, 0>>
Hidden == <<8, 0>>

\* BitFlags::<LoadOptionAttributeFlag>::ALL_BITS
LoadOptionAttributeFlag_ALL == U32Or(Active, U32Or(ForceReconnect, Hidden))

BitFlags_from_bits_truncate(bits) == U32And(bits, LoadOptionAttributeFlag_ALL)

LoadOptionCategory(bits) == bits

LoadOptionCategory_BOOT == LoadOptionCategory(<<0, 0>>)
LoadOptionCategory_APP == LoadOptionCategory(<<256, 0>>)

LoadOptionAttributes_from(value) == value

LoadOptionAttributes_new(flags, category) == U32Or(flags, category)

LoadOptionAttributes_bits(self) == self

category_bits(self) == U32And(self, CATEGORY_MASK)

category(self) == LoadOptionCategory(category_bits(self))

\* the flag bits taken without masking the category out
flag_bits_unmasked(self) == self

flag_bits(self) == U32And(self, U32Xor(CATEGORY_MASK, U32_MAX))

flags(self) == BitFlags_from_bits_truncate(flag_bits(self))

set_flags(self, new_flags) == U32Or(new_flags, category_bits(self))

set_category(self, new_category) == U32Or(new_category, flag_bits(self))

(***************************************************************************)
(* SpecAttributes: a LoadOptionAttributes made from a u32, then calls of   *)
(* set_flags and set_category in any order.                                *)
(***************************************************************************)
MaxCalls == 2

\* Starting values: every combination of flag bits, category bits, bits of
\* the low limb that are neither, and a high limb.
FlagBitSamples == {0, 1, 11}
CategoryBitSamples == {0, 256, 2560, 7936}
OtherLowBitSamples == {0, 4, 57588}
HighLimbSamples == {0, 32769, 65535}

AttributeValues ==
    { <<f + c + o, h>> : f \in FlagBitSamples, c \in CategoryBitSamples,
                         o \in OtherLowBitSamples, h \in HighLimbSamples }

\* every BitFlags<LoadOptionAttributeFlag>
FlagSets == { <<a + b + c, 0>> : a \in {0, 1}, b \in {0, 2}, c \in {0, 8} }

\* LoadOptionCategory values: the field is private and the constants are not
\* public, so a caller holds only what category() returned.
Categories ==
    { category(<<c, 0>>) : c \in CategoryBitSamples \cup {512, 4096} }

AtInit ==
    /\ LoIdle
    /\ ChIdle
    /\ NdIdle
    /\ BtIdle
    /\ LvIdle
    /\ EnIdle
    /\ StIdle
    /\ WrIdle
    /\ CcIdle
    /\ atStart \in AttributeValues
    /\ atSelf = LoadOptionAttributes_from(atStart)
    /\ atPrev = None
    /\ atFlags = None
    /\ atCategory = None
    /\ atCalls = <<>>

AtSetFlags ==
    /\ Len(atCalls) < MaxCalls
    /\ \E new_flags \in FlagSets :
        /\ atSelf' = set_flags(atSelf, new_flags)
        /\ atFlags' = new_flags
    /\ atPrev' = atSelf
    /\ atCalls' = Append(atCalls, "set_flags")
    /\ UNCHANGED <<atStart, atCategory>>
    /\ AtFrame

AtSetCategory ==
    /\ Len(atCalls) < MaxCalls
    /\ \E new_category \in Categories :
        /\ atSelf' = set_category(atSelf, new_category)
        /\ atCategory' = new_category
    /\ atPrev' = atSelf
    /\ atCalls' = Append(atCalls, "set_category")
    /\ UNCHANGED <<atStart, atFlags>>
    /\ AtFrame

AtNext == AtSetFlags \/ AtSetCategory

SpecAttributes == AtInit /\ [][AtNext]_vars

(***************************************************************************)
(* C7: attribute masking.                                                  *)
(***************************************************************************)
\* The two fields of a u32, read without the accessors: the value of bits
\* 8..12 of the low limb, and which of bits 0, 1 and 3 are set.
CategoryField(v) == (v[1] \div 256) % 32
FlagField(v) == <<v[1] % 2, (v[1] \div 2) % 2, (v[1] \div 8) % 2>>

\* C7: after set_category then set_flags, and after set_flags then
\* set_category, the field the latest call did not touch is as it was before
\* that call, and category() and flags() return exactly the value last set
\* for their field, for every starting 32-bit value.
C7_AttributeMasking ==
    /\ atCalls # <<>> /\ atCalls[Len(atCalls)] = "set_flags" =>
        /\ CategoryField(atSelf) = CategoryField(atPrev)
        /\ category(atSelf) = category(atPrev)
    /\ atCalls # <<>> /\ atCalls[Len(atCalls)] = "set_category" =>
        /\ FlagField(atSelf) = FlagField(atPrev)
        /\ flags(atSelf) = flags(atPrev)
    /\ atFlags # None =>
        /\ flags(atSelf) = atFlags
        /\ FlagField(atSelf) = FlagField(atFlags)
    /\ atCategory # None =>
        /\ category(atSelf) = atCategory
        /\ CategoryField(atSelf) = CategoryField(atCategory)

\* C7 witness: starting from a value with every bit set, set_category(APP)
\* then set_flags(Active | Hidden) have been called and both read back.
C7_Witness ==
    /\ atStart = <<65535, 65535>>
    /\ atCalls = <<"set_category", "set_flags">>
    /\ atCategory = LoadOptionCategory_APP
    /\ atFlags = <<9, 0>>
    /\ category(atSelf) = LoadOptionCategory_APP
    /\ flags(atSelf) = <<9, 0>>

(***************************************************************************)
(* SpecNode: EFIDevicePathProtocol::parse on the bytes of one node, then   *)
(* EFILoadOption::parse on a load option whose chain ends with those bytes.*)
(***************************************************************************)
MaxSizeDelta == 2

\* encoded nodes to start from
NodeEncodings ==
    { EFIDevicePathProtocol_write(n) :
        n \in HardDriveNodes
              \cup { FilePath(<<97>>), FilePath(<<92, 128512>>), FilePath(<<>>),
                     End("EndEntireDevicePath"), End("EndInstanceDevicePath") } }

HeaderByteSamples == {0, 1, 2, 4, 5, 127, 170, 255}

\* the same bytes with another type or subType
Retyped(b) ==
    { [b EXCEPT ![1] = v] : v \in HeaderByteSamples }
    \cup { [b EXCEPT ![2] = v] : v \in HeaderByteSamples }

\* the same bytes with the size field (the u16 at offset 2) moved
Resized(b) ==
    { [b EXCEPT ![3] = (U16(b[3], b[4]) + d) % 256,
                ![4] = ((U16(b[3], b[4]) + d) \div 256) % 256] :
        d \in { x \in (0 - MaxSizeDelta)..MaxSizeDelta : U16(b[3], b[4]) + x >= 0 } }

NodeInputs ==
    UNION { Truncated(b) \cup Retyped(b) \cup Resized(b) \cup Patched(b) :
            b \in NodeEncodings }

\* the chains put before the node inside the load option
ChainPrefixes ==
    { <<>>, EFIDevicePathProtocol_write(FilePath(<<97>>)) }

\* a load option "a" with the given bytes as its device path list
LoadOptionAround(file_path_list) ==
    <<1, 0, 0, 0>> \o write_u16(Len(file_path_list)) \o <<97, 0, 0, 0>>
    \o file_path_list \o <<170>>

NdInit ==
    /\ LoIdle
    /\ ChIdle
    /\ AtIdle
    /\ BtIdle
    /\ LvIdle
    /\ EnIdle
    /\ StIdle
    /\ WrIdle
    /\ CcIdle
    /\ ndInput \in NodeInputs
    /\ ndOption \in { LoadOptionAround(prefix \o ndInput) : prefix \in ChainPrefixes }
    /\ ndResult = None
    /\ ndOptionResult = None
    /\ ndPc = "start"

NdParse ==
    /\ ndPc = "start"
    /\ ndResult' = EFIDevicePathProtocol_parse(ndInput, 0)
    /\ ndPc' = "parsed"
    /\ UNCHANGED <<ndInput, ndOption, ndOptionResult>>
    /\ NdFrame

NdParseOption ==
    /\ ndPc = "parsed"
    /\ ndOptionResult' = EFILoadOption_parse(ndOption)
    /\ ndPc' = "option_parsed"
    /\ UNCHANGED <<ndInput, ndOption, ndResult>>
    /\ NdFrame

NdNext == NdParse \/ NdParseOption

SpecNode == NdInit /\ [][NdNext]_vars

(***************************************************************************)
(* C6 and C8: truncated and unsupported nodes.                             *)
(***************************************************************************)
\* the header of the input, where it has one
DeclaredType == ndInput[1]
DeclaredSubType == ndInput[2]
DeclaredSize == ndInput[3] + 256 * ndInput[4]

\* C6 (as claimed): decoding a node from a buffer shorter than the node's
\* declared size field always fails with a parse or I/O error.
C6_ShortBufferFails ==
    (ndPc # "start" /\ Len(ndInput) >= 4 /\ Len(ndInput) < DeclaredSize)
        => (~ndResult.ok /\ ndResult.err.kind \in {"IoError", "ParseSubType"})

\* C8: a node whose type byte is neither Media nor End fails with UnknownType
\* carrying that byte, a recognized type with an unrecognized subType fails
\* with UnknownSubType, neither is the IoError classification, and the load
\* option holding the node fails as a whole with that error and no device
\* path list.
C8_UnsupportedNode ==
    /\ (ndPc # "start" /\ Len(ndInput) >= 4) =>
        /\ DeclaredType \notin {4, 127} =>
            /\ ndResult = [ok |-> FALSE,
                           err |-> [kind |-> "UnknownType", typ |-> DeclaredType]]
            /\ ndResult.err.kind # "IoError"
        /\ (DeclaredType = 127 /\ DeclaredSubType \notin {1, 255}) =>
            /\ ~ndResult.ok
            /\ ndResult.err.kind = "UnknownSubType"
            /\ ndResult.err.typ = "End"
            /\ ndResult.err.sub_type = DeclaredSubType
        /\ (DeclaredType = 4 /\ DeclaredSubType \notin {1, 4}) =>
            /\ ~ndResult.ok
            /\ ndResult.err.kind = "UnknownSubType"
            /\ ndResult.err.typ = "MediaDevicePath"
            /\ ndResult.err.sub_type = DeclaredSubType
    /\ (/\ ndPc = "option_parsed"
        /\ ~ndResult.ok
        /\ ndResult.err.kind \in {"UnknownType", "UnknownSubType"}) =>
        /\ DOMAIN ndOptionResult = {"ok", "err"}
        /\ ~ndOptionResult.ok
        /\ ndOptionResult.err.kind = "DevicePathProtocolParseError"
        /\ ndOptionResult.err.source = ndResult.err

\* C8 witness: a node of type 0xAA after a file path node in a load option:
\* the node and the load option have both failed with UnknownType(0xAA).
C8_Witness ==
    /\ ndPc = "option_parsed"
    /\ Len(ndInput) >= 4
    /\ DeclaredType = 170
    /\ ndResult.err = [kind |-> "UnknownType", typ |-> 170]
    /\ Len(ndOption) > Len(ndInput) + 11
    /\ ndOptionResult.err.source = [kind |-> "UnknownType", typ |-> 170]

(***************************************************************************)
(* Variable names.  A file name is a sequence of characters, the text of   *)
(* a UUID being one element; a Uuid is the value that text denotes.        *)
(***************************************************************************)
OkValue(v) == [ok |-> TRUE, value |-> v]

\* Option<T>
OptionNone == [kind |-> "None"]
Some(v) == [kind |-> "Some", value |-> v]

\* how a call ends: it returns a value or it panics
Return(r) == [kind |-> "Return", result |-> r]
Panic(message) == [kind |-> "Panic", message |-> message]

EFI_GLOBAL_VENDOR_GID == "8be4df61-93ca-11d2-aa0d-00e098032b8c"
LOADER_VENDOR_GID == "4a67b082-0a4c-41cf-b6c7-440b29bb8c4f"

InvalidFormat == [kind |-> "InvalidFormat"]
UuidError == [kind |-> "UuidError"]

Uuid(text) == [uuid |-> text]

Uuid_from_str(text) ==
    IF Len(text) = 1 /\ text[1] \in {EFI_GLOBAL_VENDOR_GID, LOADER_VENDOR_GID}
    THEN OkValue(Uuid(text[1]))
    ELSE Err(UuidError)

\* {:x} of a Uuid: hyphenated lower case
Uuid_lower_hex(vendor) == vendor.uuid

efi_global_vendor_uuid == Uuid_from_str(<<EFI_GLOBAL_VENDOR_GID>>).value

VariableName_new(key, vendor) == [key |-> key, vendor |-> vendor]

global_vendor_new(key) == VariableName_new(key, efi_global_vendor_uuid)

RECURSIVE find(_, _, _)
find(str, c, i) ==
    IF i > Len(str) THEN 0
    ELSE IF str[i] = c THEN i
    ELSE find(str, c, i + 1)

split_once(str, c) ==
    Let(find(str, c, 1), LAMBDA i :
        IF i = 0 THEN OptionNone
        ELSE Some(<<SubSeq(str, 1, i - 1), SubSeq(str, i + 1, Len(str))>>))

VariableName_from_str(str) ==
    Let(split_once(str, "-"), LAMBDA parts :
        IF parts.kind = "None" THEN Err(InvalidFormat) ELSE
    Let(Uuid_from_str(parts.value[2]), LAMBDA vendor :
        IF ~vendor.ok THEN vendor
        ELSE OkValue(VariableName_new(parts.value[1], vendor.value))))

EFIVariableAttribute_ALL == <<127, 0>>

EFIVariable_new(name, attributes, data) ==
    [name |-> name, attributes |-> attributes, data |-> data]

(***************************************************************************)
(* The efivarfs backend.  The directory is a sequence of files, each a     *)
(* name and its raw content, in the order the listing yields them.         *)
(***************************************************************************)
ListVariablesError_GLibError == [kind |-> "ListVariablesError::GLibError"]
ListVariablesError_NameError(source) ==
    [kind |-> "ListVariablesError::NameError", source |-> source]
ReadVariableError_GLibError == [kind |-> "ReadVariableError::GLibError"]

\* root.resolve_relative_path(format!("{}-{:x}", name.key(), name.vendor()))
resolve_relative_path(name) == name.key \o <<"-", Uuid_lower_hex(name.vendor)>>

\* query_exists left out: every file is taken to exist
query_exists_always(files, file) == TRUE

query_exists(files, file) == \E i \in 1..Len(files) : files[i].name = file

\* query_info_future: the size of the file, or glib's error (io_error, or
\* the file does not exist)
query_info_future(files, file, io_error) ==
    IF io_error \/ ~(\E i \in 1..Len(files) : files[i].name = file)
    THEN Err(ReadVariableError_GLibError)
    ELSE OkValue(Len(files[CHOOSE i \in 1..Len(files) :
                               files[i].name = file].content))

\* read_future: an input stream over the content the file has when opened
read_future(files, file, io_error) ==
    IF io_error \/ ~(\E i \in 1..Len(files) : files[i].name = file)
    THEN Err(ReadVariableError_GLibError)
    ELSE OkValue(files[CHOOSE i \in 1..Len(files) :
                           files[i].name = file].content)

\* read_all_future into vec![0u8; size]: the buffer keeps its size, the
\* bytes the stream does not fill stay 0
read_all_future(stream, size, io_error) ==
    IF io_error THEN Err(ReadVariableError_GLibError)
    ELSE OkValue([i \in 1..size |->
                      IF i <= Len(stream) THEN stream[i] ELSE 0])

\* (buffer, _, None) => .. : the attributes of &buffer[0..4], the rest data
variable_from_buffer(name, buffer) ==
    IF Len(buffer) < 4
    THEN Panic("range end index 4 out of range for slice")
    ELSE Return(OkValue(EFIVariable_new(name,
             U32And(read_u32(buffer, 0).value, EFIVariableAttribute_ALL),
             SubSeq(buffer, 5, Len(buffer)))))

\* the three awaits against one state of the directory; io_error: glib
\* reports an error from one of them
read_existing_variable(files, file, name, io_error) ==
    Let(query_info_future(files, file, io_error), LAMBDA size :
        IF ~size.ok THEN Return(size) ELSE
    Let(read_future(files, file, FALSE), LAMBDA stream :
        IF ~stream.ok THEN Return(stream) ELSE
    Let(read_all_future(stream.value, size.value, FALSE), LAMBDA buffer :
        IF ~buffer.ok THEN Return(buffer)
        ELSE variable_from_buffer(name, buffer.value))))

read_variable(files, name, io_error) ==
    Let(resolve_relative_path(name), LAMBDA file :
        IF ~query_exists(files, file) THEN Return(OptionNone) ELSE
    Let(read_existing_variable(files, file, name, io_error), LAMBDA read :
        IF read.kind = "Panic" THEN read
        ELSE Return(Some(read.result))))

\* into_stream(10, ..): the listing is fetched in pages of this many files
PAGE_SIZE == 10

\* the files one next_files call returns, page counted from 1
next_files(files, page) ==
    SubSeq(files, (page - 1) * PAGE_SIZE + 1,
           IF page * PAGE_SIZE < Len(files) THEN page * PAGE_SIZE
           ELSE Len(files))

\* the backend calls of one enumeration: enumerate_children, then next_files
\* until a page comes back empty
enumerate_calls(files) == 1..((Len(files) + PAGE_SIZE - 1) \div PAGE_SIZE + 2)

\* into_stream, map_ok and try_flatten: the files of the pages one after the
\* other; the stream ends with the empty page, or with the error of the call
\* that fails (io_error_at: its number, call 1 being enumerate_children)
RECURSIVE try_flatten(_, _, _)
try_flatten(files, page, io_error_at) ==
    IF io_error_at = page + 1 THEN <<Err(ListVariablesError_GLibError)>> ELSE
    Let(next_files(files, page), LAMBDA page_files :
        IF page_files = <<>> THEN <<>>
        ELSE [i \in 1..Len(page_files) |-> OkValue(page_files[i])]
                 \o try_flatten(files, page + 1, io_error_at))

\* try_collect ending the list at a name that does not parse
RECURSIVE try_collect_names_partial(_, _, _)
try_collect_names_partial(stream, i, names) ==
    IF i > Len(stream) THEN OkValue(names)
    ELSE IF ~stream[i].ok THEN stream[i] ELSE
    Let(VariableName_from_str(stream[i].value.name), LAMBDA name :
        IF ~name.ok THEN OkValue(names)
        ELSE try_collect_names_partial(stream, i + 1,
                                       Append(names, name.value)))

\* the map over the flattened pages, then try_collect: the names in listing
\* order, or the first error
RECURSIVE try_collect_names(_, _, _)
try_collect_names(stream, i, names) ==
    IF i > Len(stream) THEN OkValue(names)
    ELSE IF ~stream[i].ok THEN stream[i] ELSE
    Let(VariableName_from_str(stream[i].value.name), LAMBDA name :
        IF ~name.ok THEN Err(ListVariablesError_NameError(name.err))
        ELSE try_collect_names(stream, i + 1, Append(names, name.value)))

\* io_error_at: the backend call glib reports an error from, 0 for none
enumerate_variables(files, io_error_at) ==
    IF io_error_at = 1 THEN Err(ListVariablesError_GLibError)
    ELSE try_collect_names(try_flatten(files, 1, io_error_at), 1, <<>>)

(***************************************************************************)
(* Boot entries: read_boot_entry and the pieces of list_boot_entries.      *)
(***************************************************************************)
BootEntryParseError(id, source) ==
    [kind |-> "BootEntryParseError", id |-> id, source |-> source]
ReadBootEntryError_ReadVariableError(source) ==
    [kind |-> "ReadBootEntryError::ReadVariableError", source |-> source]
ReadBootEntryError_ParseError(source) ==
    [kind |-> "ReadBootEntryError::ParseError", source |-> source]
ListBootEntriesError_ListVariablesError(source) ==
    [kind |-> "ListVariablesError", source |-> source]
ListBootEntriesError_ReadBootEntryError(source) ==
    [kind |-> "ReadBootEntryError", source |-> source]
NoBootOrderVariableError == [kind |-> "NoBootOrderVariableError"]
ReadBootOrderVariableError(source) ==
    [kind |-> "ReadBootOrderVariableError", source |-> source]

BootEntry(id, load_option) == [id |-> id, load_option |-> load_option]

BootEntry_description(entry) == entry.load_option.description

BootEntry_is_active(entry) ==
    U32And(flags(entry.load_option.attributes), Active) = Active

BootOrder(order) == [order |-> order]

OrderedBootEntries(order, entries) == [order |-> order, entries |-> entries]

UpperHexDigits ==
    <<"0", "1", "2", "3", "4", "5", "6", "7", "8", "9", "A", "B", "C", "D", "E", "F">>
LowerHexDigits ==
    <<"0", "1", "2", "3", "4", "5", "6", "7", "8", "9", "a", "b", "c", "d", "e", "f">>

\* the class [0-9A-F]
is_class_0_9_A_F(c) == \E i \in 1..16 : UpperHexDigits[i] = c

\* the same pattern without the trailing $
boot_key_regex_captures_unanchored(key) ==
    IF /\ Len(key) >= 8
       /\ SubSeq(key, 1, 4) = <<"B", "o", "o", "t">>
       /\ \A i \in 5..8 : is_class_0_9_A_F(key[i])
    THEN Some(SubSeq(key, 5, 8))
    ELSE OptionNone

\* boot_key_regex().captures(key)?.get(1)? for ^Boot([0-9A-F]{4})$
boot_key_regex_captures(key) ==
    IF /\ Len(key) = 8
       /\ SubSeq(key, 1, 4) = <<"B", "o", "o", "t">>
       /\ \A i \in 5..8 : is_class_0_9_A_F(key[i])
    THEN Some(SubSeq(key, 5, 8))
    ELSE OptionNone

\* char::to_digit(16)
to_digit_16(c) ==
    IF \E i \in 1..16 : UpperHexDigits[i] = c
    THEN Some((CHOOSE i \in 1..16 : UpperHexDigits[i] = c) - 1)
    ELSE IF \E i \in 1..16 : LowerHexDigits[i] = c
    THEN Some((CHOOSE i \in 1..16 : LowerHexDigits[i] = c) - 1)
    ELSE OptionNone

\* u16::from_str_radix(src, 16), from digit i with acc so far
RECURSIVE u16_from_str_radix_16(_, _, _)
u16_from_str_radix_16(src, i, acc) ==
    IF i > Len(src) THEN (IF Len(src) = 0 THEN Err("Empty") ELSE OkValue(acc)) ELSE
    Let(to_digit_16(src[i]), LAMBDA digit :
        IF digit.kind = "None" THEN Err("InvalidDigit")
        ELSE IF acc * 16 + digit.value >= U16_MODULUS THEN Err("PosOverflow")
        ELSE u16_from_str_radix_16(src, i + 1, acc * 16 + digit.value))

\* parse_entry tagging the error with id 0
parse_entry_untagged(id, variable) ==
    Let(EFILoadOption_parse(variable.data), LAMBDA load_option :
        IF load_option.ok
        THEN OkValue(BootEntry(id, load_option.value))
        ELSE Err(ReadBootEntryError_ParseError(
                     BootEntryParseError(0, load_option.err))))

parse_entry(id, variable) ==
    Let(EFILoadOption_parse(variable.data), LAMBDA load_option :
        IF load_option.ok
        THEN OkValue(BootEntry(id, load_option.value))
        ELSE Err(ReadBootEntryError_ParseError(
                     BootEntryParseError(id, load_option.err))))

\* boot_key_regex().captures(name.key())?.get(1)?.as_str(), then
\* u16::from_str_radix(id, 16).ok()?
boot_entry_id(name) ==
    Let(boot_key_regex_captures(name.key), LAMBDA captures :
        IF captures.kind = "None" THEN OptionNone ELSE
    Let(u16_from_str_radix_16(captures.value, 1, 0), LAMBDA id :
        IF ~id.ok THEN OptionNone ELSE Some(id.value)))

\* Some(match self.read_variable(name).await? { .. }) on what read_variable
\* returned
read_boot_entry_match(id, read) ==
    IF read.kind = "None" THEN OptionNone
    ELSE IF read.value.ok THEN Some(parse_entry(id, read.value.value))
    ELSE Some(Err(ReadBootEntryError_ReadVariableError(read.value.err)))

\* The outcome of read_boot_entry, with the backend calls it made (calls).
read_boot_entry(files, name, io_error) ==
    Let(boot_entry_id(name), LAMBDA id :
        IF id.kind = "None"
        THEN [outcome |-> Return(OptionNone), calls |-> <<>>] ELSE
    Let(read_variable(files, name, io_error), LAMBDA read :
        [outcome |-> IF read.kind = "Panic" THEN read
                     ELSE Return(read_boot_entry_match(id.value, read.result)),
         calls |-> <<[call |-> "read_variable", name |-> name,
                      outcome |-> IF read.kind = "Panic" THEN "Panic"
                                  ELSE IF read.result.kind = "None" THEN "None"
                                  ELSE IF read.result.value.ok THEN "Ok"
                                  ELSE "Err"]>>]))

\* The address of the bytes of a Vec<u8>, as far as its alignment goes: an
\* empty Vec holds the dangling pointer align_of::<u8>() = 1, and the system
\* allocator returns blocks aligned to 16.
Vec_as_ptr(data) == IF Len(data) = 0 THEN 1 ELSE 16

RECURSIVE u16_units(_, _)
u16_units(data, i) ==
    IF i + 1 > Len(data) THEN <<>>
    ELSE <<U16(data[i], data[i + 1])>> \o u16_units(data, i + 2)

\* bytemuck::cast_slice::<u8, u16>: panics where try_cast_slice returns an
\* error.  The units are read in the byte order of the (little-endian) host.
cast_slice_u8_to_u16(data) ==
    IF Vec_as_ptr(data) % 2 # 0
    THEN Panic("cast_slice>TargetAlignmentGreaterAndInputNotAligned")
    ELSE IF Len(data) % 2 # 0
    THEN Panic("cast_slice>OutputSliceWouldHaveSlop")
    ELSE Return(u16_units(data, 1))

BootOrderKey == <<"B", "o", "o", "t", "O", "r", "d", "e", "r">>

\* a missing or unreadable BootOrder taken as the empty order
read_boot_order_or_empty(files, io_error) ==
    Let(read_variable(files, global_vendor_new(BootOrderKey), io_error), LAMBDA read :
        [outcome |-> IF read.kind = "Panic" THEN read
                     ELSE IF read.result.kind = "None" \/ ~read.result.value.ok
                     THEN Return(OkValue(BootOrder(<<>>)))
                     ELSE Return(OkValue(BootOrder(
                              u16_units(read.result.value.value.data, 1)))),
         calls |-> <<[call |-> "read_variable",
                      name |-> global_vendor_new(BootOrderKey),
                      outcome |-> IF read.kind = "Panic" THEN "Panic"
                                  ELSE IF read.result.kind = "None" THEN "None"
                                  ELSE IF read.result.value.ok THEN "Ok"
                                  ELSE "Err"]>>])

\* The first statements of list_boot_entries: the BootOrder variable read
\* and cast, with the backend call made (calls).
read_boot_order(files, io_error) ==
    Let(read_variable(files, global_vendor_new(BootOrderKey), io_error), LAMBDA read :
    Let(<<[call |-> "read_variable", name |-> global_vendor_new(BootOrderKey),
           outcome |-> IF read.kind = "Panic" THEN "Panic"
                       ELSE IF read.result.kind = "None" THEN "None"
                       ELSE IF read.result.value.ok THEN "Ok" ELSE "Err"]>>,
        LAMBDA calls :
        IF read.kind = "Panic" THEN [outcome |-> read, calls |-> calls]
        ELSE IF read.result.kind = "None"
        THEN [outcome |-> Return(Err(NoBootOrderVariableError)), calls |-> calls]
        ELSE IF ~read.result.value.ok
        THEN [outcome |-> Return(Err(ReadBootOrderVariableError(read.result.value.err))),
              calls |-> calls]
        ELSE
    Let(cast_slice_u8_to_u16(read.result.value.value.data), LAMBDA order :
        IF order.kind = "Panic" THEN [outcome |-> order, calls |-> calls]
        ELSE [outcome |-> Return(OkValue(BootOrder(order.result))),
              calls |-> calls])))

\* try_collect over the filter_map stream skips the errors instead
try_collect_next_skipping_errors(collected, item) ==
    IF item.kind = "Some" /\ item.value.ok
    THEN [kind |-> "Continue", collected |-> Append(collected, item.value.value)]
    ELSE [kind |-> "Continue", collected |-> collected]

\* One item of the stream through filter_map and try_collect: None is
\* dropped, Ok is kept and the first Err ends the stream (converted by ?).
try_collect_next(collected, item) ==
    IF item.kind = "None" THEN [kind |-> "Continue", collected |-> collected]
    ELSE IF item.value.ok
    THEN [kind |-> "Continue", collected |-> Append(collected, item.value.value)]
    ELSE [kind |-> "Break",
          err |-> ListBootEntriesError_ReadBootEntryError(item.value.err)]

\* a mapping that keeps the entry it already holds for an id
RECURSIVE HashMap_collect_first_wins(_, _, _)
HashMap_collect_first_wins(entries, i, map) ==
    IF i > Len(entries) THEN map
    ELSE HashMap_collect_first_wins(entries, i + 1,
             [id \in DOMAIN map \cup {entries[i].id} |->
                 IF id \in DOMAIN map THEN map[id] ELSE entries[i]])

\* entries.into_iter().map(|entry| (entry.id, entry)).collect::<HashMap>()
RECURSIVE HashMap_collect(_, _, _)
HashMap_collect(entries, i, map) ==
    IF i > Len(entries) THEN map
    ELSE HashMap_collect(entries, i + 1,
             [id \in DOMAIN map \cup {entries[i].id} |->
                 IF id = entries[i].id THEN entries[i] ELSE map[id]])

list_boot_entries_ok(order, entries) ==
    OkValue(OrderedBootEntries(order, HashMap_collect(entries, 1, <<>>)))

\* the rows in the order of the mapping's keys
RECURSIVE OrderedBootEntries_iter_by_id(_, _)
OrderedBootEntries_iter_by_id(self, i) ==
    IF DOMAIN self.entries = {} THEN <<>>
    ELSE Let({ id \in DOMAIN self.entries :
                   \E k \in 1..Len(self.order.order) : self.order.order[k] = id },
             LAMBDA ids :
             IF ids = {} THEN <<>>
             ELSE Let(CHOOSE id \in ids : \A other \in ids : id <= other, LAMBDA id :
                      <<self.entries[id]>>
                      \o OrderedBootEntries_iter_by_id(
                             [self EXCEPT !.entries =
                                 [x \in DOMAIN self.entries \ {id} |-> self.entries[x]]],
                             i)))

\* self.order.iter().filter_map(move |id| self.entries.get(id)), from
\* position i of order
RECURSIVE OrderedBootEntries_iter(_, _)
OrderedBootEntries_iter(self, i) ==
    IF i > Len(self.order.order) THEN <<>>
    ELSE (IF self.order.order[i] \in DOMAIN self.entries
          THEN <<self.entries[self.order.order[i]]>>
          ELSE <<>>)
         \o OrderedBootEntries_iter(self, i + 1)

\* main_page: one ActionRow per entry of entries.iter()
ActionRow(entry) ==
    [title |-> BootEntry_description(entry),
     subtitle |-> IF BootEntry_is_active(entry) THEN "Active" ELSE "Inactive",
     entry |-> entry]

(***************************************************************************)
(* SpecBoot: one call of list_boot_entries against a directory, then       *)
(* main_page showing its result.                                           *)
(***************************************************************************)
MaxFiles == 3

Boot == <<"B", "o", "o", "t">>

\* raw content: the 4-byte store attributes, then the payload
StoreAttributes == <<7, 0, 0, 0>>

GlobalFile(key, payload) ==
    [name |-> key \o <<"-", EFI_GLOBAL_VENDOR_GID>>,
     content |-> StoreAttributes \o payload]

\* load options "a" (active, one file path node), "b" (inactive) and "c"
LoadOptionA ==
    <<1, 0, 0, 0, 12, 0, 97, 0, 0, 0, 4, 4, 8, 0, 97, 0, 0, 0, 127, 255, 4, 0>>
LoadOptionB == <<0, 0, 0, 0, 4, 0, 98, 0, 0, 0, 127, 255, 4, 0>>
LoadOptionC == <<1, 0, 0, 0, 4, 0, 99, 0, 0, 0, 127, 255, 4, 0>>
\* a load option whose chain holds a node of type 0xAA
LoadOptionUnknownType == <<1, 0, 0, 0, 4, 0, 0, 0, 170, 1, 4, 0>>

BootOrderPayloads ==
    { <<1, 0, 162, 0>>, <<162, 0, 1, 0>>, <<7, 0, 1, 0, 1, 0>>, <<1, 0, 162>>, <<>> }

FilePool ==
    { GlobalFile(Boot \o <<"0", "0", "0", "1">>, LoadOptionA),
      GlobalFile(Boot \o <<"0", "0", "A", "2">>, LoadOptionB),
      [name |-> Boot \o <<"0", "0", "0", "1", "-", LOADER_VENDOR_GID>>,
       content |-> StoreAttributes \o LoadOptionC],
      GlobalFile(Boot \o <<"0", "0", "B", "3">>, LoadOptionUnknownType),
      [name |-> Boot \o <<"0", "0", "0", "4", "-", EFI_GLOBAL_VENDOR_GID>>,
       content |-> <<7, 0, 0>>],
      GlobalFile(Boot \o <<"C", "u", "r", "r", "e", "n", "t">>, <<1, 0>>),
      GlobalFile(Boot \o <<"0", "0", "a", "2">>, LoadOptionB),
      GlobalFile(Boot \o <<"0", "0", "0", "1", "1">>, LoadOptionA),
      [name |-> BootOrderKey \o <<"-", LOADER_VENDOR_GID>>,
       content |-> StoreAttributes \o <<1, 0>>],
      [name |-> <<"d", "u", "m", "p">>, content |-> <<>>] }
    \cup { GlobalFile(BootOrderKey, payload) : payload \in BootOrderPayloads }

\* a directory lists files with different names
Directories ==
    { dir \in UNION { [1..n -> FilePool] : n \in 0..MaxFiles } :
        \A i, j \in 1..Len(dir) : i # j => dir[i].name # dir[j].name }

BtInit ==
    /\ LoIdle
    /\ ChIdle
    /\ AtIdle
    /\ NdIdle
    /\ LvIdle
    /\ EnIdle
    /\ StIdle
    /\ WrIdle
    /\ CcIdle
    /\ btFiles \in Directories
    /\ btPc = "start"
    /\ btOrder = None
    /\ btNames = None
    /\ btIdx = 0
    /\ btCollected = <<>>
    /\ btResult = None
    /\ btRows = None
    /\ btLog = <<>>

\* list_boot_entries up to the first .await? on read_variable and the cast
BtReadBootOrder ==
    /\ btPc = "start"
    /\ \E io_error \in BOOLEAN :
       \E step \in {read_boot_order(btFiles, io_error)} :
        /\ btLog' = btLog \o step.calls
        /\ IF step.outcome.kind = "Panic"
           THEN btPc' = "panicked" /\ UNCHANGED <<btOrder, btResult>>
           ELSE IF ~step.outcome.result.ok
           THEN /\ btResult' = step.outcome.result
                /\ btPc' = "done"
                /\ UNCHANGED btOrder
           ELSE /\ btOrder' = step.outcome.result.value
                /\ btPc' = "enumerate"
                /\ UNCHANGED btResult
    /\ UNCHANGED <<btFiles, btNames, btIdx, btCollected, btRows>>
    /\ BtFrame

\* enumerate_variables().await.map_err(ListVariablesError)?; an empty stream
\* is collected at once
BtEnumerate ==
    /\ btPc = "enumerate"
    /\ \E io_error_at \in {0} \cup enumerate_calls(btFiles) :
       \E variables \in {enumerate_variables(btFiles, io_error_at)} :
        /\ btLog' = Append(btLog, [call |-> "enumerate_variables",
                                   outcome |-> IF variables.ok THEN "Ok" ELSE "Err"])
        /\ IF ~variables.ok
           THEN /\ btResult' = Err(ListBootEntriesError_ListVariablesError(variables.err))
                /\ btPc' = "done"
                /\ UNCHANGED <<btNames, btIdx>>
           ELSE IF variables.value = <<>>
           THEN /\ btResult' = list_boot_entries_ok(btOrder, <<>>)
                /\ btPc' = "done"
                /\ btNames' = variables.value
                /\ UNCHANGED btIdx
           ELSE /\ btNames' = variables.value
                /\ btIdx' = 1
                /\ btPc' = "entries"
                /\ UNCHANGED btResult
    /\ UNCHANGED <<btFiles, btOrder, btCollected, btRows>>
    /\ BtFrame

\* The next name of the stream: read_boot_entry(&name).await through
\* filter_map and try_collect; after the last name the entries are collected
\* into the mapping and the call returns.
BtReadBootEntry ==
    /\ btPc = "entries"
    /\ \E io_error \in BOOLEAN :
       \E step \in {read_boot_entry(btFiles, btNames[btIdx], io_error)} :
        /\ btLog' = btLog \o step.calls
        /\ IF step.outcome.kind = "Panic"
           THEN btPc' = "panicked" /\ UNCHANGED <<btIdx, btCollected, btResult>>
           ELSE \E next \in {try_collect_next(btCollected, step.outcome.result)} :
                IF next.kind = "Break"
                THEN /\ btResult' = Err(next.err)
                     /\ btPc' = "done"
                     /\ UNCHANGED <<btIdx, btCollected>>
                ELSE /\ btCollected' = next.collected
                     /\ btIdx' = btIdx + 1
                     /\ IF btIdx = Len(btNames)
                        THEN /\ btResult' = list_boot_entries_ok(btOrder, next.collected)
                             /\ btPc' = "done"
                        ELSE UNCHANGED <<btResult, btPc>>
    /\ UNCHANGED <<btFiles, btOrder, btNames, btRows>>
    /\ BtFrame

\* main_page: the list of rows, or the status page with the error
BtMainPage ==
    /\ btPc = "done"
    /\ btRows' =
        IF btResult.ok
        THEN [page |-> "Boot Entries",
              rows |-> [k \in 1..Len(OrderedBootEntries_iter(btResult.value, 1)) |->
                           ActionRow(OrderedBootEntries_iter(btResult.value, 1)[k])]]
        ELSE [page |-> "Failed to list EFI boot entries", err |-> btResult.err]
    /\ btPc' = "shown"
    /\ UNCHANGED <<btFiles, btOrder, btNames, btIdx, btCollected, btResult, btLog>>
    /\ BtFrame

BtNext == BtReadBootOrder \/ BtEnumerate \/ BtReadBootEntry \/ BtMainPage

SpecBoot == BtInit /\ [][BtNext]_vars

(***************************************************************************)
(* C3, C4, C5, C9 and C10: the boot entry aggregation.                     *)
(***************************************************************************)
\* "Boot" followed by exactly 4 upper-case hexadecimal digits
IsBootNNNNKey(key) ==
    /\ Len(key) = 8
    /\ key[1] = "B" /\ key[2] = "o" /\ key[3] = "o" /\ key[4] = "t"
    /\ \A i \in 5..8 :
        key[i] \in {"0", "1", "2", "3", "4", "5", "6", "7", "8", "9",
                    "A", "B", "C", "D", "E", "F"}

HexValueOf(c) == CHOOSE v \in 0..15 : UpperHexDigits[v + 1] = c

\* the boot id NNNN of a matching key
BootIdOf(key) ==
    4096 * HexValueOf(key[5]) + 256 * HexValueOf(key[6])
    + 16 * HexValueOf(key[7]) + HexValueOf(key[8])

\* the payload stored under a name (the content after the 4-byte prefix)
PayloadOf(name) ==
    LET file == CHOOSE f \in {btFiles[i] : i \in 1..Len(btFiles)} :
                    f.name = name.key \o <<"-", name.vendor.uuid>>
    IN  SubSeq(file.content, 5, Len(file.content))

IsBootOrderName(name) ==
    name.key = BootOrderKey /\ name.vendor.uuid = EFI_GLOBAL_VENDOR_GID

\* the failures of C3, as the backend calls of the log show them
BootOrderReadFailed ==
    \E i \in 1..Len(btLog) :
        /\ btLog[i].call = "read_variable"
        /\ IsBootOrderName(btLog[i].name)
        /\ btLog[i].outcome \in {"None", "Err"}

EnumerationFailed ==
    \E i \in 1..Len(btLog) :
        btLog[i].call = "enumerate_variables" /\ btLog[i].outcome = "Err"

BootEntryReadFailed ==
    \E i \in 1..Len(btLog) :
        /\ btLog[i].call = "read_variable"
        /\ IsBootNNNNKey(btLog[i].name.key)
        /\ btLog[i].outcome = "Err"

BootEntryDecodeFailed ==
    \E i \in 1..Len(btLog) :
        /\ btLog[i].call = "read_variable"
        /\ IsBootNNNNKey(btLog[i].name.key)
        /\ btLog[i].outcome = "Ok"
        /\ ~EFILoadOption_parse(PayloadOf(btLog[i].name)).ok

PresentPositions(ordered) ==
    { i \in 1..Len(ordered.order.order) :
        ordered.order.order[i] \in DOMAIN ordered.entries }

\* C4: iter yields, for each position of BootOrder in order, the entry with
\* that position's id when the mapping has one and nothing otherwise: the
\* k-th row is the entry of the k-th position that has an entry, an id
\* without entry yields no row, and an entry whose id is not in BootOrder is
\* never yielded.
C4_IterFollowsBootOrder ==
    (btPc = "shown" /\ btResult.ok) =>
        LET ordered == btResult.value
            present == PresentPositions(ordered)
        IN  /\ btRows.page = "Boot Entries"
            /\ Len(btRows.rows) = Cardinality(present)
            /\ \A i \in present :
                LET k == Cardinality({j \in present : j <= i})
                IN  /\ btRows.rows[k].entry = ordered.entries[ordered.order.order[i]]
                    /\ btRows.rows[k].entry.id = ordered.order.order[i]
            /\ \A k \in 1..Len(btRows.rows) :
                \E i \in 1..Len(ordered.order.order) :
                    ordered.order.order[i] = btRows.rows[k].entry.id

\* C4 witness: Boot0001 ("a") was enumerated before Boot00A2 ("b"), BootOrder
\* is 00A2, 0001, and the page shows "b" and then "a".
C4_Witness ==
    /\ btPc = "shown"
    /\ btResult.ok
    /\ btResult.value.order.order = <<162, 1>>
    /\ Len(btNames) = 3
    /\ btNames[1].key = Boot \o <<"0", "0", "0", "1">>
    /\ btNames[2].key = Boot \o <<"0", "0", "A", "2">>
    /\ Len(btRows.rows) = 2
    /\ btRows.rows[1].title = <<98>> /\ btRows.rows[1].subtitle = "Inactive"
    /\ btRows.rows[2].title = <<97>> /\ btRows.rows[2].subtitle = "Active"

\* the directory holds a BootOrder variable of the global vendor whose
\* payload has an odd number of bytes
OddBootOrder ==
    \E i \in 1..Len(btFiles) :
        /\ btFiles[i].name = BootOrderKey \o <<"-", EFI_GLOBAL_VENDOR_GID>>
        /\ Len(btFiles[i].content) >= 4
        /\ (Len(btFiles[i].content) - 4) % 2 = 1

\* C5 (as claimed): once a BootOrder variable with a payload of odd length
\* has been read, list_boot_entries has failed with an error: it has not
\* panicked and has not gone on with a truncated order.
C5_OddBootOrderIsAnError ==
    (OddBootOrder /\ btLog # <<>> /\ btLog[1].outcome = "Ok") =>
        /\ btPc \in {"done", "shown"}
        /\ ~btResult.ok
        /\ btOrder = None

\* no BootOrder variable exists under the global vendor UUID
NoGlobalBootOrder ==
    \A i \in 1..Len(btFiles) :
        btFiles[i].name # BootOrderKey \o <<"-", EFI_GLOBAL_VENDOR_GID>>

\* C9: when no BootOrder variable exists under the global vendor UUID, the
\* call fails with NoBootOrderVariableError after that one backend call,
\* without enumerating or reading anything else, whatever else exists.
C9_MissingBootOrder ==
    (NoGlobalBootOrder /\ btPc # "start") =>
        /\ btPc \in {"done", "shown"}
        /\ btResult = [ok |-> FALSE, err |-> [kind |-> "NoBootOrderVariableError"]]
        /\ Len(btLog) = 1
        /\ btLog[1].outcome = "None"
        /\ btNames = None
        /\ btCollected = <<>>

\* C9 witness: a directory with Boot0001 and a BootOrder of another vendor,
\* but none of the global vendor: the page shows the failure.
C9_Witness ==
    /\ NoGlobalBootOrder
    /\ \E i \in 1..Len(btFiles) :
        btFiles[i].name = Boot \o <<"0", "0", "0", "1", "-", EFI_GLOBAL_VENDOR_GID>>
    /\ \E i \in 1..Len(btFiles) :
        btFiles[i].name = BootOrderKey \o <<"-", LOADER_VENDOR_GID>>
    /\ btPc = "shown"
    /\ btRows.page = "Failed to list EFI boot entries"
    /\ btRows.err.kind = "NoBootOrderVariableError"

\* C10: a step of the aggregation on a name whose key is not "Boot" and 4
\* upper-case hex digits makes no backend call, leaves the collected entries
\* as they are and does not fail; every read of the aggregation is for a
\* matching key, and every entry of the result comes from a matching name.
C10_NonMatchingNamesSkipped ==
    [][ /\ (btPc = "entries" /\ ~IsBootNNNNKey(btNames[btIdx].key)) =>
            /\ btLog' = btLog
            /\ btCollected' = btCollected
            /\ btIdx' = btIdx + 1
            /\ btPc' \in {"entries", "done"}
            /\ btPc' = "done" => btResult'.ok
        /\ \A i \in 2..Len(btLog') :
            btLog'[i].call = "read_variable" => IsBootNNNNKey(btLog'[i].name.key)
        /\ (btResult' # None /\ btResult'.ok) =>
            \A id \in DOMAIN btResult'.value.entries :
                \E k \in 1..Len(btNames') :
                    /\ IsBootNNNNKey(btNames'[k].key)
                    /\ BootIdOf(btNames'[k].key) = id
                    /\ btResult'.value.entries[id].load_option
                           = EFILoadOption_parse(PayloadOf(btNames'[k])).value
      ]_vars

\* C10 witness: Boot00011 was enumerated before Boot0001; the call succeeded
\* with the entry of Boot0001 alone, after two backend reads in all.
C10_Witness ==
    /\ btPc = "shown"
    /\ btResult.ok
    /\ \E k \in 1..Len(btNames) :
        /\ btNames[k].key = Boot \o <<"0", "0", "0", "1", "1">>
        /\ k < Len(btNames)
        /\ btNames[k + 1].key = Boot \o <<"0", "0", "0", "1">>
    /\ DOMAIN btResult.value.entries = {1}
    /\ Len(btLog) = 3


(***************************************************************************)
(* SpecList: one call of list_variables against a directory.  The names    *)
(* are enumerated, then read one by one; collect keeps what filter_map     *)
(* lets through.                                                           *)
(***************************************************************************)
\* .map(|result| result.map_err(|err| (name, err))) on what read_variable
\* returned: None stays None and filter_map drops it
list_variables_item(name, read) ==
    IF read.kind = "None" THEN OptionNone
    ELSE IF read.value.ok THEN Some(read.value)
    ELSE Some(Err(<<name, read.value.err>>))

\* collect::<Vec<_>>() taking the next item of the filter_map stream
collect_next(collected, item) ==
    IF item.kind = "None" THEN collected ELSE Append(collected, item.value)

LvInit ==
    /\ lvFiles \in Directories
    /\ lvPc = "start"
    /\ lvNames = None
    /\ lvIdx = 0
    /\ lvCollected = <<>>
    /\ lvResult = None
    /\ lvLog = <<>>
    /\ LoIdle
    /\ ChIdle
    /\ AtIdle
    /\ NdIdle
    /\ BtIdle
    /\ EnIdle
    /\ StIdle
    /\ WrIdle
    /\ CcIdle

\* let names = self.enumerate_variables().await?;
LvEnumerate ==
    /\ lvPc = "start"
    /\ \E io_error_at \in {0} \cup enumerate_calls(lvFiles) :
       \E names \in {enumerate_variables(lvFiles, io_error_at)} :
          /\ lvNames' = names
          /\ IF ~names.ok
             THEN /\ lvResult' = names
                  /\ lvPc' = "done"
                  /\ lvIdx' = 0
             ELSE IF names.value = <<>>
             THEN /\ lvResult' = OkValue(<<>>)
                  /\ lvPc' = "done"
                  /\ lvIdx' = 0
             ELSE /\ lvResult' = None
                  /\ lvPc' = "reading"
                  /\ lvIdx' = 1
    /\ UNCHANGED <<lvFiles, lvCollected, lvLog>>
    /\ LvFrame

\* one turn of the filter_map stream: read_variable for the next name, the
\* item it maps to taken by collect; Ok(variables) after the last name
LvReadVariable ==
    /\ lvPc = "reading"
    /\ \E io_error \in BOOLEAN :
       \E read \in {read_variable(lvFiles, lvNames.value[lvIdx], io_error)} :
          /\ lvLog' = Append(lvLog, [name |-> lvNames.value[lvIdx], read |-> read])
          /\ IF read.kind = "Panic"
             THEN /\ lvPc' = "panicked"
                  /\ UNCHANGED <<lvIdx, lvCollected, lvResult>>
             ELSE \E collected \in {collect_next(lvCollected,
                      list_variables_item(lvNames.value[lvIdx], read.result))} :
                  /\ lvCollected' = collected
                  /\ IF lvIdx = Len(lvNames.value)
                     THEN /\ lvResult' = OkValue(collected)
                          /\ lvPc' = "done"
                          /\ lvIdx' = lvIdx
                     ELSE /\ lvIdx' = lvIdx + 1
                          /\ UNCHANGED <<lvResult, lvPc>>
    /\ UNCHANGED <<lvFiles, lvNames>>
    /\ LvFrame

LvNext == LvEnumerate \/ LvReadVariable

SpecList == LvInit /\ [][LvNext]_vars


\* the content of the file a name resolves to
ContentOf(files, name) ==
    (CHOOSE f \in {files[i] : i \in 1..Len(files)} :
         f.name = resolve_relative_path(name)).content

\* the item list_variables owes a name that exists: Ok(variable) with the
\* payload stored under the name, or Err((name, error)) with that very name
ItemOwedTo(item, files, name) ==
    IF item.ok
    THEN /\ item.value.name = name
         /\ item.value.data =
                SubSeq(ContentOf(files, name), 5, Len(ContentOf(files, name)))
    ELSE item.err[1] = name

\* C11 (as claimed): once the enumeration has succeeded list_variables never
\* aborts: it returns Ok with one item per enumerated name that exists, in
\* enumeration order, each item Ok(variable) or Err((name, error)) for that
\* name; it returns an error only when the enumeration failed.
C11_OnlyEnumerationAborts ==
    /\ lvPc # "panicked"
    /\ (lvPc = "done" /\ lvNames.ok) =>
           /\ lvResult.ok
           /\ Len(lvResult.value) = Len(lvNames.value)
           /\ \A k \in 1..Len(lvNames.value) :
                  ItemOwedTo(lvResult.value[k], lvFiles, lvNames.value[k])
    /\ (lvPc = "done" /\ ~lvResult.ok) => ~lvNames.ok

\* what read_variable is said to return for a name
ReadVariableAsSpecified(files, name, read) ==
    /\ read.kind = "Return"
    /\ IF ~query_exists(files, resolve_relative_path(name))
       THEN read.result = OptionNone
       ELSE /\ read.result.kind = "Some"
            /\ Len(ContentOf(files, name)) < 4 => ~read.result.value.ok
            /\ read.result.value.ok =>
                   /\ read.result.value.value.attributes =
                          U32And(read_u32(ContentOf(files, name), 0).value,
                                 EFIVariableAttribute_ALL)
                   /\ read.result.value.value.data =
                          SubSeq(ContentOf(files, name), 5,
                                 Len(ContentOf(files, name)))

\* C12 (as claimed): every read_variable call returns: None for a name that
\* does not exist, otherwise Ok with the attributes of the first 4 bytes and
\* the remaining bytes as payload, or a ReadError; content shorter than 4
\* bytes gives a ReadError.
C12_ReadVariableNeverPanics ==
    \A i \in 1..Len(lvLog) :
        ReadVariableAsSpecified(lvFiles, lvLog[i].name, lvLog[i].read)


(***************************************************************************)
(* SpecEnumerate: one call of enumerate_variables against a directory long *)
(* enough to be listed in several pages.                                   *)
(***************************************************************************)
MaxListed == 12

HexDigitAt ==
    <<"1", "2", "3", "4", "5", "6", "7", "8", "9", "A", "B", "C", "D", "E", "F">>

\* the k-th file of a long listing, k in 1..15
ListedFile(k) == GlobalFile(Boot \o <<"0", "0", "0", HexDigitAt[k]>>, <<k, 0>>)

\* files whose names are not <key>-<uuid>: no dash, and no uuid after the dash
UnlistableFiles ==
    { [name |-> <<"d", "u", "m", "p">>, content |-> <<>>],
      [name |-> Boot \o <<"0", "0", "0", "1", "-", "x">>, content |-> <<>>] }

Listing(n, descending, bad_at, bad) ==
    [i \in 1..n |-> IF i = bad_at THEN bad
                    ELSE ListedFile(IF descending THEN n + 1 - i ELSE i)]

Listings ==
    { Listing(n, descending, bad_at, bad) :
          n \in 0..MaxListed, descending \in BOOLEAN,
          bad_at \in 0..MaxListed, bad \in UnlistableFiles }

EnInit ==
    /\ enFiles \in Listings
    /\ enIoErrorAt = 0
    /\ enResult = None
    /\ enPc = "start"
    /\ LoIdle
    /\ ChIdle
    /\ AtIdle
    /\ NdIdle
    /\ BtIdle
    /\ LvIdle
    /\ StIdle
    /\ WrIdle
    /\ CcIdle

EnEnumerate ==
    /\ enPc = "start"
    /\ \E io_error_at \in {0} \cup enumerate_calls(enFiles) :
          /\ enIoErrorAt' = io_error_at
          /\ enResult' = enumerate_variables(enFiles, io_error_at)
    /\ enPc' = "done"
    /\ UNCHANGED enFiles
    /\ EnFrame

EnNext == EnEnumerate

SpecEnumerate == EnInit /\ [][EnNext]_vars

\* a file name of the form <key>-<uuid>, the key without a dash
IsKeyDashUuid(str) ==
    /\ Len(str) >= 2
    /\ str[Len(str)] \in {EFI_GLOBAL_VENDOR_GID, LOADER_VENDOR_GID}
    /\ str[Len(str) - 1] = "-"
    /\ \A i \in 1..(Len(str) - 2) : str[i] # "-"

\* the name such a file name stands for
NameOf(str) ==
    VariableName_new(SubSeq(str, 1, Len(str) - 2), Uuid(str[Len(str)]))

\* C13: enumerate_variables returns the names of all listed files, in listing
\* order across the pages, when every file name is <key>-<uuid> and no
\* backend call fails; otherwise it returns an error and no list of names.
C13_EnumerateAllOrNothing ==
    enPc = "done" =>
        IF enIoErrorAt = 0 /\ \A i \in 1..Len(enFiles) : IsKeyDashUuid(enFiles[i].name)
        THEN /\ enResult.ok
             /\ enResult.value =
                    [i \in 1..Len(enFiles) |-> NameOf(enFiles[i].name)]
        ELSE /\ ~enResult.ok
             /\ "value" \notin DOMAIN enResult

\* a listing of more than one page whose one bad name is on the second page:
\* the names of the first page are not returned
C13_Witness ==
    /\ enPc = "done"
    /\ enIoErrorAt = 0
    /\ Len(enFiles) > PAGE_SIZE
    /\ \E i \in (PAGE_SIZE + 1)..Len(enFiles) : ~IsKeyDashUuid(enFiles[i].name)
    /\ \A i \in 1..PAGE_SIZE : IsKeyDashUuid(enFiles[i].name)
    /\ ~enResult.ok


\* the boot ids an error value carries, at any depth of its sources
RECURSIVE TaggedBootIds(_)
TaggedBootIds(err) ==
    (IF "id" \in DOMAIN err THEN {err.id} ELSE {})
    \cup (IF "source" \in DOMAIN err THEN TaggedBootIds(err.source) ELSE {})

\* C14 (as claimed): when the read of a matching BootNNNN variable fails, the
\* error list_boot_entries returns carries the boot id NNNN of that variable.
C14_ReadErrorCarriesBootId ==
    \A i \in 1..Len(btLog) :
        ( /\ btLog[i].call = "read_variable"
          /\ IsBootNNNNKey(btLog[i].name.key)
          /\ btLog[i].outcome = "Err" ) =>
            /\ ~btResult.ok
            /\ BootIdOf(btLog[i].name.key) \in TaggedBootIds(btResult.err)

\* C15: when a matching BootNNNN variable was read and its payload does not
\* decode as a load option, list_boot_entries returns the error
\* ReadBootEntryError(ParseError(BootEntryParseError)) whose id is the value
\* of the four hex digits of the key.
C15_DecodeErrorCarriesBootId ==
    \A i \in 1..Len(btLog) :
        ( /\ btLog[i].call = "read_variable"
          /\ IsBootNNNNKey(btLog[i].name.key)
          /\ btLog[i].outcome = "Ok"
          /\ ~EFILoadOption_parse(PayloadOf(btLog[i].name)).ok ) =>
            /\ ~btResult.ok
            /\ btResult.err.kind = "ReadBootEntryError"
            /\ btResult.err.source.kind = "ReadBootEntryError::ParseError"
            /\ btResult.err.source.source.kind = "BootEntryParseError"
            /\ btResult.err.source.source.id = BootIdOf(btLog[i].name.key)

\* Boot00B3 was read and did not decode: the error carries 0x00B3
C15_Witness ==
    /\ btPc = "done"
    /\ BootEntryDecodeFailed
    /\ ~btResult.ok
    /\ btResult.err.kind = "ReadBootEntryError"
    /\ btResult.err.source.kind = "ReadBootEntryError::ParseError"
    /\ btResult.err.source.source.id = 179


(***************************************************************************)
(* SpecStream: one call of list_boot_entries or list_variables, step by    *)
(* step.  Every await of read_variable is a step of its own, and between   *)
(* the steps another process may remove a file of the directory.           *)
(***************************************************************************)
MaxRemovals == 1

StreamFilePool ==
    { GlobalFile(BootOrderKey, <<1, 0, 162, 0>>),
      GlobalFile(Boot \o <<"0", "0", "0", "1">>, LoadOptionA),
      GlobalFile(Boot \o <<"0", "0", "A", "2">>, LoadOptionB),
      GlobalFile(Boot \o <<"C", "u", "r", "r", "e", "n", "t">>, <<1, 0>>),
      [name |-> Boot \o <<"0", "0", "0", "4", "-", EFI_GLOBAL_VENDOR_GID>>,
       content |-> <<7, 0, 0>>] }

StreamDirectories ==
    { dir \in Directories : \A i \in 1..Len(dir) : dir[i] \in StreamFilePool }

\* FilterMap with two futures pending at a time
filter_map_polls_next_buffered(pending) == Len(pending) < 2

\* FilterMap::poll_next takes the next name from stream::iter only while its
\* pending_fut is None
filter_map_polls_next(pending) == pending = <<>>

\* what the closure of filter_map makes of the result of read_variable
stream_item(mode, name, read) ==
    IF mode = "list_variables" THEN list_variables_item(name, read)
    ELSE read_boot_entry_match(boot_entry_id(name).value, read)

\* collect (list_variables) or try_collect (list_boot_entries) taking an item
stream_collect(mode, collected, item) ==
    IF mode = "list_variables"
    THEN [kind |-> "Continue", collected |-> collect_next(collected, item)]
    ELSE try_collect_next(collected, item)

\* the value returned after the stream has ended
stream_result(mode, order, collected) ==
    IF mode = "list_variables" THEN OkValue(collected)
    ELSE list_boot_entries_ok(order, collected)

Without(seq, k) == SubSeq(seq, 1, k - 1) \o SubSeq(seq, k + 1, Len(seq))

StInit ==
    /\ stMode \in {"list_boot_entries", "list_variables"}
    /\ stFiles \in StreamDirectories
    /\ stPc = IF stMode = "list_boot_entries" THEN "start" ELSE "enumerate"
    /\ stOrder = None
    /\ stNames = <<>>
    /\ stNext = 0
    /\ stPending = <<>>
    /\ stCollected = <<>>
    /\ stResult = None
    /\ stRemoved = 0
    /\ stLog = <<>>
    /\ LoIdle
    /\ ChIdle
    /\ AtIdle
    /\ NdIdle
    /\ BtIdle
    /\ LvIdle
    /\ EnIdle
    /\ WrIdle
    /\ CcIdle

\* list_boot_entries: the BootOrder variable read and cast
StReadBootOrder ==
    /\ stPc = "start"
    /\ \E io_error \in BOOLEAN :
       \E step \in {read_boot_order(stFiles, io_error)} :
          IF step.outcome.kind = "Panic"
          THEN stPc' = "panicked" /\ UNCHANGED <<stOrder, stResult>>
          ELSE IF ~step.outcome.result.ok
          THEN /\ stResult' = step.outcome.result
               /\ stPc' = "done"
               /\ UNCHANGED stOrder
          ELSE /\ stOrder' = step.outcome.result.value
               /\ stPc' = "enumerate"
               /\ UNCHANGED stResult
    /\ UNCHANGED <<stMode, stFiles, stNames, stNext, stPending, stCollected,
                   stRemoved, stLog>>
    /\ StFrame

\* enumerate_variables().await, ? on its error, stream::iter over the names
StEnumerate ==
    /\ stPc = "enumerate"
    /\ \E io_error_at \in {0} \cup enumerate_calls(stFiles) :
       \E names \in {enumerate_variables(stFiles, io_error_at)} :
          IF ~names.ok
          THEN /\ stResult' =
                      IF stMode = "list_variables" THEN names
                      ELSE Err(ListBootEntriesError_ListVariablesError(names.err))
               /\ stPc' = "done"
               /\ UNCHANGED <<stNames, stNext>>
          ELSE /\ stNames' = names.value
               /\ stNext' = 1
               /\ stPc' = "stream"
               /\ UNCHANGED stResult
    /\ UNCHANGED <<stMode, stFiles, stOrder, stPending, stCollected,
                   stRemoved, stLog>>
    /\ StFrame

\* The future of stPending[k] is ready with what read_variable returned (or
\* with its panic): the item goes to collect or try_collect, whose first Err
\* ends list_boot_entries and drops the stream.  absent: the file did not
\* exist when the backend was asked.
StReadyWith(k, read, absent) ==
    /\ stLog' = Append(stLog,
           [event |-> "end", idx |-> stPending[k].idx,
            outcome |-> IF read.kind = "Panic" THEN "Panic"
                        ELSE IF read.result.kind = "None" THEN "None"
                        ELSE IF read.result.value.ok THEN "Ok" ELSE "Err",
            absent |-> absent])
    /\ IF read.kind = "Panic"
       THEN stPc' = "panicked" /\ UNCHANGED <<stPending, stCollected, stResult>>
       ELSE \E next \in {stream_collect(stMode, stCollected,
                 stream_item(stMode, stPending[k].name, read.result))} :
            IF next.kind = "Break"
            THEN /\ stResult' = Err(next.err)
                 /\ stPc' = "done"
                 /\ stPending' = <<>>
                 /\ UNCHANGED stCollected
            ELSE /\ stCollected' = next.collected
                 /\ stPending' = Without(stPending, k)
                 /\ UNCHANGED <<stResult, stPc>>

\* FilterMap takes the next name and polls the closure's future up to its
\* first await: a key that is no BootNNNN gives None at once
\* (list_boot_entries), query_exists answers, and query_info_future is
\* issued for a file that exists.
StPollNext ==
    /\ stPc = "stream"
    /\ filter_map_polls_next(stPending)
    /\ stNext <= Len(stNames)
    /\ stNext' = stNext + 1
    /\ \E name \in {stNames[stNext]} :
       IF stMode = "list_boot_entries" /\ boot_entry_id(name).kind = "None"
       THEN UNCHANGED <<stPending, stCollected, stResult, stPc, stLog>>
       ELSE /\ stLog' = Append(stLog, [event |-> "start", idx |-> stNext])
                 \o (IF query_exists(stFiles, resolve_relative_path(name))
                     THEN <<>>
                     ELSE <<[event |-> "end", idx |-> stNext,
                             outcome |-> "None", absent |-> TRUE]>>)
            /\ stPending' =
                   IF query_exists(stFiles, resolve_relative_path(name))
                   THEN Append(stPending,
                            [idx |-> stNext, name |-> name,
                             file |-> resolve_relative_path(name),
                             await |-> "query_info", size |-> 0,
                             stream |-> <<>>])
                   ELSE stPending
            /\ UNCHANGED <<stCollected, stResult, stPc>>
    /\ UNCHANGED <<stMode, stFiles, stOrder, stNames, stRemoved>>
    /\ StFrame

\* query_info_future(..).await?.size(), then read_future is issued
StQueryInfo ==
    /\ stPc = "stream"
    /\ \E k \in 1..Len(stPending) :
          /\ stPending[k].await = "query_info"
          /\ \E io_error \in BOOLEAN :
             \E size \in {query_info_future(stFiles, stPending[k].file, io_error)} :
                IF ~size.ok
                THEN StReadyWith(k, Return(Some(size)),
                         ~query_exists(stFiles, stPending[k].file))
                ELSE /\ stPending' = [stPending EXCEPT ![k].await = "read",
                                                       ![k].size = size.value]
                     /\ UNCHANGED <<stCollected, stResult, stPc, stLog>>
    /\ UNCHANGED <<stMode, stFiles, stOrder, stNames, stNext, stRemoved>>
    /\ StFrame

\* read_future(..).await?, then read_all_future is issued
StRead ==
    /\ stPc = "stream"
    /\ \E k \in 1..Len(stPending) :
          /\ stPending[k].await = "read"
          /\ \E io_error \in BOOLEAN :
             \E stream \in {read_future(stFiles, stPending[k].file, io_error)} :
                IF ~stream.ok
                THEN StReadyWith(k, Return(Some(stream)),
                         ~query_exists(stFiles, stPending[k].file))
                ELSE /\ stPending' = [stPending EXCEPT ![k].await = "read_all",
                                                       ![k].stream = stream.value]
                     /\ UNCHANGED <<stCollected, stResult, stPc, stLog>>
    /\ UNCHANGED <<stMode, stFiles, stOrder, stNames, stNext, stRemoved>>
    /\ StFrame

\* read_all_future(..).await, the variable made of the buffer,
\* Some(read_existing_variable(..).await)
StReadAll ==
    /\ stPc = "stream"
    /\ \E k \in 1..Len(stPending) :
          /\ stPending[k].await = "read_all"
          /\ \E io_error \in BOOLEAN :
             \E buffer \in {read_all_future(stPending[k].stream,
                                            stPending[k].size, io_error)} :
                IF ~buffer.ok
                THEN StReadyWith(k, Return(Some(buffer)), FALSE)
                ELSE \E variable \in {variable_from_buffer(stPending[k].name,
                                                           buffer.value)} :
                     StReadyWith(k,
                         IF variable.kind = "Panic" THEN variable
                         ELSE Return(Some(variable.result)), FALSE)
    /\ UNCHANGED <<stMode, stFiles, stOrder, stNames, stNext, stRemoved>>
    /\ StFrame

\* the stream has ended: Ok(variables), or the mapping and
\* Ok(OrderedBootEntries { order, entries })
StCollect ==
    /\ stPc = "stream"
    /\ stPending = <<>>
    /\ stNext > Len(stNames)
    /\ stResult' = stream_result(stMode, stOrder, stCollected)
    /\ stPc' = "done"
    /\ UNCHANGED <<stMode, stFiles, stOrder, stNames, stNext, stPending,
                   stCollected, stRemoved, stLog>>
    /\ StFrame

\* another process removes a variable while the stream is running
StRemove ==
    /\ stPc = "stream"
    /\ stRemoved < MaxRemovals
    /\ \E i \in 1..Len(stFiles) : stFiles' = Without(stFiles, i)
    /\ stRemoved' = stRemoved + 1
    /\ UNCHANGED <<stMode, stPc, stOrder, stNames, stNext, stPending,
                   stCollected, stResult, stLog>>
    /\ StFrame

StNext ==
    \/ StReadBootOrder
    \/ StEnumerate
    \/ StPollNext
    \/ StQueryInfo
    \/ StRead
    \/ StReadAll
    \/ StCollect
    \/ StRemove

SpecStream == StInit /\ [][StNext]_vars


\* C16: within one call the reads are started in enumeration order, a read
\* is started only after every read started before it has ended, and at no
\* time are two backend calls of the call in flight.
C16_OneReadAtATime ==
    /\ Len(stPending) <= 1
    /\ \A j \in 1..Len(stLog) : \A i \in 1..(j - 1) :
           (stLog[j].event = "start" /\ stLog[i].event = "start") =>
               /\ stLog[i].idx < stLog[j].idx
               /\ \E e \in (i + 1)..(j - 1) :
                      stLog[e].event = "end" /\ stLog[e].idx = stLog[i].idx

\* a second read is in flight, after the first had gone through its awaits
C16_Witness ==
    /\ stPending # <<>>
    /\ \E i \in 1..Len(stLog) :
           /\ stLog[i].event = "end"
           /\ stLog[i].outcome = "Ok"
           /\ stLog[i].idx < stPending[1].idx

\* C17 (as claimed): in list_boot_entries, a read that finds the variable of
\* an enumerated BootNNNN name gone ends with None, the entry is skipped and
\* the call does not return an error for it.
C17_RemovedEntrySkipped ==
    stMode = "list_boot_entries" =>
        \A i \in 1..Len(stLog) :
            (stLog[i].event = "end" /\ stLog[i].absent) =>
                /\ stLog[i].outcome = "None"
                /\ ~(i = Len(stLog) /\ stPc = "done" /\ ~stResult.ok)


\* C18 (as claimed): an accepted load option has a chain that, with its End
\* node, takes up the file_path_list_length bytes of the sub-buffer exactly.
C18_ChainFillsSubBuffer ==
    (loPc \in {"parsed", "written"} /\ loParsed.ok) =>
        loParsed.cursor = loParsed.file_path_list_length


(***************************************************************************)
(* SpecWrite: EFILoadOption::write on a load option built in memory, among *)
(* them two whose chain does not fit the 16-bit length fields.             *)
(***************************************************************************)
\* a path name whose node takes 65538 bytes, and one of half that length
OversizedPathName == [i \in 1..(U16_MODULUS \div 2 - 2) |-> 97]
HalfSizedPathName == [i \in 1..(U16_MODULUS \div 4 - 1) |-> 97]

OversizedChains ==
    { <<FilePath(OversizedPathName)>>,
      <<FilePath(HalfSizedPathName), FilePath(HalfSizedPathName)>> }

WrInit ==
    /\ \E file_path_list \in Chains \cup OversizedChains :
           wrOption = EFILoadOption(<<1, 0>>, file_path_list, <<97>>, <<170>>)
    /\ wrOutput = None
    /\ wrNodes = <<>>
    /\ wrPc = "start"
    /\ LoIdle
    /\ ChIdle
    /\ AtIdle
    /\ NdIdle
    /\ BtIdle
    /\ LvIdle
    /\ EnIdle
    /\ StIdle
    /\ CcIdle

\* EFILoadOption::write.  overflow_checks: the build panics on an arithmetic
\* overflow (the debug profile) instead of wrapping.  wrNodes keeps, for each
\* device_path.write of the loop, the size field and the payload it wrote.
WrWrite ==
    /\ wrPc = "start"
    /\ \E overflow_checks \in BOOLEAN :
       \E file_path_list_with_end \in
              {Append(wrOption.file_path_list, new_end_entire)} :
          IF overflow_checks /\ sum_sizes_overflows(file_path_list_with_end)
          THEN /\ wrPc' = "panicked"
               /\ UNCHANGED <<wrOutput, wrNodes>>
          ELSE /\ wrOutput' = EFILoadOption_write(wrOption)
               /\ wrNodes' =
                      [i \in 1..Len(file_path_list_with_end) |->
                          Let(EFIDevicePathProtocol_write(file_path_list_with_end[i]),
                              LAMBDA bytes :
                                  [size_field |-> U16(bytes[3], bytes[4]),
                                   payload_written |-> Len(bytes) - 4])]
               /\ wrPc' = "written"
    /\ UNCHANGED wrOption
    /\ WrFrame

WrNext == WrWrite

SpecWrite == WrInit /\ [][WrNext]_vars

\* the bytes the loop over the chain wrote, headers included
RECURSIVE BytesWritten(_)
BytesWritten(nodes) ==
    IF nodes = <<>> THEN 0
    ELSE 4 + Head(nodes).payload_written + BytesWritten(Tail(nodes))

\* C20 (as claimed): in what write produced, the size field of every node is
\* 4 plus the payload bytes written for the node, and the
\* file_path_list_length field (offset 4) is the number of bytes written for
\* the chain with its EndEntire node.
C20_SizeFieldsMatchBytesWritten ==
    wrPc = "written" =>
        /\ \A i \in 1..Len(wrNodes) :
               wrNodes[i].size_field = 4 + wrNodes[i].payload_written
        /\ U16(wrOutput[5], wrOutput[6]) = BytesWritten(wrNodes)


\* the payload of the node in ndInput, up to the boundary its size field
\* gives, holds a 0x0000 code unit
TerminatorBeforeBoundary ==
    \E k \in 0..(DeclaredSize \div 2) :
        /\ 4 + 2 * k + 2 <= DeclaredSize
        /\ 4 + 2 * k + 2 <= Len(ndInput)
        /\ ndInput[4 + 2 * k + 1] = 0
        /\ ndInput[4 + 2 * k + 2] = 0

\* C19 (as claimed): a FilePath node without a 0x0000 code unit before the
\* boundary of its size field fails to decode; a decoded FilePath node took
\* no byte beyond that boundary, and its string does not hold the terminator.
C19_FilePathEndsAtBoundary ==
    (/\ ndPc # "start"
     /\ Len(ndInput) >= 4
     /\ DeclaredType = MEDIA_DEVICE_PATH
     /\ DeclaredSubType = FILEPATH_SUBTYPE) =>
        /\ ~TerminatorBeforeBoundary => ~ndResult.ok
        /\ ndResult.ok =>
               /\ ndResult.pos <= DeclaredSize
               /\ \A i \in 1..Len(ndResult.value.path_name) :
                      ndResult.value.path_name[i] # 0


\* the positions of the enumerated names whose key is BootNNNN with this id
PositionsOfId(id) ==
    { k \in 1..Len(btNames) :
          IsBootNNNNKey(btNames[k].key) /\ BootIdOf(btNames[k].key) = id }

LastPosition(positions) == CHOOSE k \in positions : \A j \in positions : j <= k

\* C21: when list_boot_entries returns Ok, the mapping holds for every boot
\* id of a matching enumerated name exactly one entry: the one decoded from
\* the last name with that id in enumeration order, whatever its vendor.
C21_LastNameWins ==
    (btPc \in {"done", "shown"} /\ btResult.ok) =>
        /\ \A k \in 1..Len(btNames) :
               IsBootNNNNKey(btNames[k].key) =>
                   BootIdOf(btNames[k].key) \in DOMAIN btResult.value.entries
        /\ \A id \in DOMAIN btResult.value.entries :
               /\ PositionsOfId(id) # {}
               /\ btResult.value.entries[id] =
                      BootEntry(id, EFILoadOption_parse(PayloadOf(
                          btNames[LastPosition(PositionsOfId(id))])).value)

\* Boot0001 is listed under two vendors with different load options, and
\* the call has returned Ok
C21_Witness ==
    /\ btPc \in {"done", "shown"}
    /\ btResult.ok
    /\ \E j, k \in 1..Len(btNames) :
           /\ j < k
           /\ btNames[j].key = btNames[k].key
           /\ IsBootNNNNKey(btNames[k].key)
           /\ btNames[j].vendor # btNames[k].vendor
           /\ PayloadOf(btNames[j]) # PayloadOf(btNames[k])


(***************************************************************************)
(* SpecConcurrent: two list_boot_entries calls against one backend, their  *)
(* backend calls interleaved in every order.  Each call has its own order, *)
(* names, stream position and collected entries; the directory is not      *)
(* written by either, and BOOT_KEY_REGEX is the one cell both use.         *)
(***************************************************************************)
Calls == {"a", "b"}

BOOT_KEY_PATTERN == "^Boot([0-9A-F]{4})$"

\* a OnceLock whose value is handed out once only
OnceLock_get_or_init_taken(cell, init) ==
    IF cell.kind = "None" THEN init ELSE ""

\* OnceLock::get_or_init: the value the cell holds, init() when it is empty
OnceLock_get_or_init(cell, init) ==
    IF cell.kind = "None" THEN init ELSE cell.value

\* Regex::captures for the one pattern the program compiles
Regex_captures(regex, key) ==
    IF regex = BOOT_KEY_PATTERN THEN boot_key_regex_captures(key)
    ELSE OptionNone

\* read_boot_entry with the regex boot_key_regex() returned
read_boot_entry_with(regex, files, name, io_error) ==
    IF Regex_captures(regex, name.key).kind = "None"
    THEN [outcome |-> Return(OptionNone), calls |-> <<>>]
    ELSE read_boot_entry(files, name, io_error)

\* The stream of one call run to its end without anything in between.
\* answers[j]: whether the j-th backend call of the call met an io error.
RECURSIVE try_collect_alone(_, _, _, _, _, _, _)
try_collect_alone(files, order, names, k, answers, j, collected) ==
    IF k > Len(names) THEN Return(list_boot_entries_ok(order, collected)) ELSE
    Let(read_boot_entry(files, names[k], j <= Len(answers) /\ answers[j] = 1),
        LAMBDA step :
        IF step.outcome.kind = "Panic" THEN step.outcome ELSE
    Let(try_collect_next(collected, step.outcome.result), LAMBDA next :
        IF next.kind = "Break" THEN Return(Err(next.err))
        ELSE try_collect_alone(files, order, names, k + 1, answers,
                               j + Len(step.calls), next.collected)))

\* list_boot_entries run alone against files
list_boot_entries_alone(files, answers) ==
    Let(read_boot_order(files, answers[1] = 1).outcome, LAMBDA order :
        IF order.kind = "Panic" THEN order
        ELSE IF ~order.result.ok THEN order ELSE
    Let(enumerate_variables(files, answers[2]), LAMBDA variables :
        IF ~variables.ok
        THEN Return(Err(ListBootEntriesError_ListVariablesError(variables.err)))
        ELSE try_collect_alone(files, order.result.value, variables.value, 1,
                               answers, 3, <<>>)))

CcInit ==
    /\ ccFiles \in StreamDirectories
    /\ ccRegex = OptionNone
    /\ ccPc = [c \in Calls |-> "start"]
    /\ ccOrder = [c \in Calls |-> None]
    /\ ccNames = [c \in Calls |-> <<>>]
    /\ ccIdx = [c \in Calls |-> 0]
    /\ ccCollected = [c \in Calls |-> <<>>]
    /\ ccOutcome = [c \in Calls |-> None]
    /\ ccAnswers = [c \in Calls |-> <<>>]
    /\ ccLast = "none"
    /\ ccInterleaved = FALSE
    /\ LoIdle
    /\ ChIdle
    /\ AtIdle
    /\ NdIdle
    /\ BtIdle
    /\ LvIdle
    /\ EnIdle
    /\ StIdle
    /\ WrIdle

\* call c takes a step; it had started, and the other call stepped last
CcStepBy(c) ==
    /\ ccLast' = c
    /\ ccInterleaved' =
           (ccInterleaved \/ (ccLast \notin {"none", c} /\ ccPc[c] # "start"))

\* the BootOrder variable read and cast
CcReadBootOrder ==
    \E c \in Calls :
    /\ ccPc[c] = "start"
    /\ \E io_error \in BOOLEAN :
       \E order \in {read_boot_order(ccFiles, io_error).outcome} :
          /\ ccAnswers' = [ccAnswers EXCEPT
                              ![c] = Append(@, IF io_error THEN 1 ELSE 0)]
          /\ IF order.kind = "Panic"
             THEN /\ ccPc' = [ccPc EXCEPT ![c] = "panicked"]
                  /\ ccOutcome' = [ccOutcome EXCEPT ![c] = order]
                  /\ UNCHANGED ccOrder
             ELSE IF ~order.result.ok
             THEN /\ ccPc' = [ccPc EXCEPT ![c] = "done"]
                  /\ ccOutcome' = [ccOutcome EXCEPT ![c] = order]
                  /\ UNCHANGED ccOrder
             ELSE /\ ccPc' = [ccPc EXCEPT ![c] = "enumerate"]
                  /\ ccOrder' = [ccOrder EXCEPT ![c] = order.result.value]
                  /\ UNCHANGED ccOutcome
    /\ CcStepBy(c)
    /\ UNCHANGED <<ccFiles, ccRegex, ccNames, ccIdx, ccCollected>>
    /\ CcFrame

\* enumerate_variables().await.map_err(ListVariablesError)?
CcEnumerate ==
    \E c \in Calls :
    /\ ccPc[c] = "enumerate"
    /\ \E io_error_at \in {0} \cup enumerate_calls(ccFiles) :
       \E variables \in {enumerate_variables(ccFiles, io_error_at)} :
          /\ ccAnswers' = [ccAnswers EXCEPT ![c] = Append(@, io_error_at)]
          /\ IF ~variables.ok
             THEN /\ ccPc' = [ccPc EXCEPT ![c] = "done"]
                  /\ ccOutcome' = [ccOutcome EXCEPT ![c] = Return(Err(
                         ListBootEntriesError_ListVariablesError(variables.err)))]
                  /\ UNCHANGED <<ccNames, ccIdx>>
             ELSE /\ ccPc' = [ccPc EXCEPT ![c] = "entries"]
                  /\ ccNames' = [ccNames EXCEPT ![c] = variables.value]
                  /\ ccIdx' = [ccIdx EXCEPT ![c] = 1]
                  /\ UNCHANGED ccOutcome
    /\ CcStepBy(c)
    /\ UNCHANGED <<ccFiles, ccRegex, ccOrder, ccCollected>>
    /\ CcFrame

\* the next name of the call's stream: boot_key_regex(), read_boot_entry,
\* try_collect
CcReadBootEntry ==
    \E c \in Calls :
    /\ ccPc[c] = "entries"
    /\ ccIdx[c] <= Len(ccNames[c])
    /\ \E regex \in {OnceLock_get_or_init(ccRegex, BOOT_KEY_PATTERN)} :
       \E io_error \in BOOLEAN :
       \E step \in {read_boot_entry_with(regex, ccFiles,
                                         ccNames[c][ccIdx[c]], io_error)} :
          /\ ccRegex' = Some(regex)
          /\ ccAnswers' = [ccAnswers EXCEPT ![c] =
                 IF step.calls = <<>> THEN @
                 ELSE Append(@, IF io_error THEN 1 ELSE 0)]
          /\ IF step.outcome.kind = "Panic"
             THEN /\ ccPc' = [ccPc EXCEPT ![c] = "panicked"]
                  /\ ccOutcome' = [ccOutcome EXCEPT ![c] = step.outcome]
                  /\ UNCHANGED <<ccIdx, ccCollected>>
             ELSE \E next \in {try_collect_next(ccCollected[c],
                                                step.outcome.result)} :
                  IF next.kind = "Break"
                  THEN /\ ccPc' = [ccPc EXCEPT ![c] = "done"]
                       /\ ccOutcome' = [ccOutcome EXCEPT
                                           ![c] = Return(Err(next.err))]
                       /\ UNCHANGED <<ccIdx, ccCollected>>
                  ELSE /\ ccCollected' = [ccCollected EXCEPT
                                             ![c] = next.collected]
                       /\ ccIdx' = [ccIdx EXCEPT ![c] = @ + 1]
                       /\ UNCHANGED <<ccPc, ccOutcome>>
    /\ CcStepBy(c)
    /\ UNCHANGED <<ccFiles, ccOrder, ccNames>>
    /\ CcFrame

\* the stream has ended: the mapping and Ok(OrderedBootEntries)
CcReturn ==
    \E c \in Calls :
    /\ ccPc[c] = "entries"
    /\ ccIdx[c] > Len(ccNames[c])
    /\ ccOutcome' = [ccOutcome EXCEPT
                        ![c] = Return(list_boot_entries_ok(ccOrder[c],
                                                           ccCollected[c]))]
    /\ ccPc' = [ccPc EXCEPT ![c] = "done"]
    /\ CcStepBy(c)
    /\ UNCHANGED <<ccFiles, ccRegex, ccOrder, ccNames, ccIdx, ccCollected,
                   ccAnswers>>
    /\ CcFrame

CcNext == CcReadBootOrder \/ CcEnumerate \/ CcReadBootEntry \/ CcReturn

SpecConcurrent == CcInit /\ [][CcNext]_vars

\* C22: whatever the interleaving, a call that has ended has the outcome
\* list_boot_entries has when it runs alone against the same directory and
\* meets the same io errors.
C22_ConcurrentCallsIndependent ==
    \A c \in Calls :
        ccPc[c] \in {"done", "panicked"} =>
            ccOutcome[c] = list_boot_entries_alone(ccFiles, ccAnswers[c])

\* both calls returned Ok with entries after their steps had interleaved
C22_Witness ==
    /\ ccInterleaved
    /\ \A c \in Calls :
           /\ ccPc[c] = "done"
           /\ ccOutcome[c].result.ok
           /\ DOMAIN ccOutcome[c].result.value.entries # {}


(***************************************************************************)
(* C23: the order of the backend calls of list_boot_entries (SpecBoot).    *)
(***************************************************************************)
\* the names of the enumeration read_boot_entry reads, in enumeration order
RECURSIVE MatchingNames(_, _)
MatchingNames(names, k) ==
    IF k > Len(names) THEN <<>>
    ELSE (IF IsBootNNNNKey(names[k].key) THEN <<names[k]>> ELSE <<>>)
         \o MatchingNames(names, k + 1)

\* call i of the log ended the call: a read that failed or panicked, or a
\* BootNNNN payload that does not decode
IsFatalCall(i) ==
    \/ btLog[i].outcome \in {"Err", "Panic"}
    \/ /\ btLog[i].call = "read_variable"
       /\ IsBootOrderName(btLog[i].name)
       /\ \/ btLog[i].outcome = "None"
          \/ read_boot_order(btFiles, FALSE).outcome.kind = "Panic"
    \/ /\ btLog[i].call = "read_variable"
       /\ IsBootNNNNKey(btLog[i].name.key)
       /\ btLog[i].outcome = "Ok"
       /\ ~EFILoadOption_parse(PayloadOf(btLog[i].name)).ok

\* C23: the first backend call is the BootOrder read, the second the
\* enumeration, and the calls after it are the reads of the matching BootNNNN
\* names in enumeration order; no call follows a missing or unreadable
\* BootOrder, a failed enumeration, or a BootNNNN read or decode that failed.
C23_CallsInOrderUntilFirstFailure ==
    /\ Len(btLog) >= 1 =>
           btLog[1].call = "read_variable" /\ IsBootOrderName(btLog[1].name)
    /\ Len(btLog) >= 2 => btLog[2].call = "enumerate_variables"
    /\ \A i \in 3..Len(btLog) :
           /\ btLog[i].call = "read_variable"
           /\ i - 2 <= Len(MatchingNames(btNames, 1))
           /\ btLog[i].name = MatchingNames(btNames, 1)[i - 2]
    /\ \A i \in 1..Len(btLog) : IsFatalCall(i) => i = Len(btLog)

\* a BootNNNN read or decode failed while a later matching name was listed:
\* the call has ended and the later name was not read
C23_Witness ==
    /\ btPc = "done"
    /\ Len(btLog) >= 3
    /\ IsFatalCall(Len(btLog))
    /\ Len(MatchingNames(btNames, 1)) > Len(btLog) - 2

====
